---- MODULE Spec2Model ----
(***************************************************************************)
(* A model of the compliance rules engine of hecras_compliance:            *)
(* rules/engine.py (path resolution, generic checks, custom dispatch,      *)
(* the evaluate loop), rules/checks/*.py (the custom handlers) and the     *)
(* parts of the parsers' dataclasses the engine reads.                     *)
(*                                                                         *)
(* Numbers of the model data are fixed-point thousandths (0.035 is 35).    *)
(* A Python string is a Str node holding the sequence of its pieces: the   *)
(* characters of a profile name, the tokens of an applies_to path.         *)
(***************************************************************************)
EXTENDS Integers, Sequences, FiniteSets, TLC

(***************************************************************************)
(* Python values                                                           *)
(***************************************************************************)
None == [t |-> "none"]
Num(n) == [t |-> "num", n |-> n]
Bool(b) == [t |-> "bool", b |-> b]
Str(c) == [t |-> "str", c |-> c]
List(e) == [t |-> "list", e |-> e]
Obj(cls, a) == [t |-> "obj", cls |-> cls, a |-> a]
Dict(d) == [t |-> "dict", d |-> d]
\* a one-piece string
S(s) == Str(<<s>>)
EmptyStr == Str(<<>>)
NegInf == [t |-> "ninf"]
PosInf == [t |-> "pinf"]

IsNone(v) == v.t = "none"
IsNumeric(v) == v.t \in {"num", "bool", "ninf", "pinf"}

\* bool is a subtype of int: True is 1 and False is 0
IntOf(v) == IF v.t = "bool" THEN (IF v.b THEN 1 ELSE 0) ELSE v.n

\* truth value of a Python object (bool(v))
Truthy(v) ==
    CASE v.t = "none" -> FALSE
      [] v.t = "bool" -> v.b
      [] v.t = "num" -> v.n # 0
      [] v.t = "str" -> v.c # <<>>
      [] v.t = "list" -> v.e # <<>>
      [] v.t = "dict" -> DOMAIN v.d # {}
      [] OTHER -> TRUE

RECURSIVE Concat(_)
Concat(c) == IF c = <<>> THEN "" ELSE Head(c) \o Concat(Tail(c))

RECURSIVE JoinWith(_, _)
\* sep.join(parts)
JoinWith(sep, parts) ==
    IF parts = <<>> THEN ""
    ELSE IF Len(parts) = 1 THEN Head(parts)
    ELSE Head(parts) \o sep \o JoinWith(sep, Tail(parts))

\* str(v), as the f-strings and str() calls of the engine render a value
StrOf(v) ==
    CASE v.t = "none" -> "None"
      [] v.t = "num" -> ToString(v.n)
      [] v.t = "bool" -> (IF v.b THEN "True" ELSE "False")
      [] v.t = "str" -> Concat(v.c)
      [] v.t = "ninf" -> "-inf"
      [] v.t = "pinf" -> "inf"
      [] v.t = "list" -> "[" \o ToString(Len(v.e)) \o " items]"
      [] v.t = "dict" -> "{" \o ToString(Cardinality(DOMAIN v.d)) \o " keys}"
      [] OTHER -> v.cls \o "(...)"

\* a < b where the code has a <= b
LeqStrict(a, b) ==
    IF IsNumeric(a) /\ IsNumeric(b)
    THEN [ok |-> TRUE,
          v |-> \/ a.t = "ninf" /\ b.t # "ninf"
                \/ b.t = "pinf" /\ a.t # "pinf"
                \/ /\ a.t \in {"num", "bool"}
                   /\ b.t \in {"num", "bool"}
                   /\ IntOf(a) < IntOf(b)]
    ELSE [ok |-> FALSE, v |-> FALSE]

\* a <= b between Python values: ok is FALSE when the comparison raises
\* TypeError (None, str, list or an unordered dataclass against a number)
Leq(a, b) ==
    IF IsNumeric(a) /\ IsNumeric(b)
    THEN [ok |-> TRUE,
          v |-> \/ a.t = "ninf"
                \/ b.t = "pinf"
                \/ /\ a.t \in {"num", "bool"}
                   /\ b.t \in {"num", "bool"}
                   /\ IntOf(a) <= IntOf(b)]
    ELSE [ok |-> FALSE, v |-> FALSE]

\* a == b between Python values: never raises; True == 1
PyEq(a, b) ==
    IF a.t \in {"num", "bool"} /\ b.t \in {"num", "bool"}
    THEN IntOf(a) = IntOf(b)
    ELSE IF a.t = "str" /\ b.t = "str" THEN Concat(a.c) = Concat(b.c)
    ELSE a = b

(***************************************************************************)
(* The parsers' dataclasses, as far as the engine reads them               *)
(***************************************************************************)
ManningRegion(n_value, start_station) ==
    Obj("ManningRegion",
        [n_value |-> Num(n_value), start_station |-> Num(start_station)])

BankStations(left, right) ==
    Obj("BankStations", [left |-> Num(left), right |-> Num(right)])

CrossSection(river_station, manning_regions, bank_stations, expansion, contraction) ==
    Obj("CrossSection",
        [river_station |-> Num(river_station),
         manning_regions |-> List(manning_regions),
         bank_stations |-> bank_stations,
         expansion |-> Num(expansion),
         contraction |-> Num(contraction)])

\* CrossSection.manning_n_left: the first region's n, None without regions
manning_n_left(xs) ==
    LET regions == xs.a.manning_regions.e
    IN  IF regions # <<>> THEN regions[1].a.n_value ELSE None

\* CrossSection.manning_n_right: the last region's n, None without regions
manning_n_right(xs) ==
    LET regions == xs.a.manning_regions.e
    IN  IF regions # <<>> THEN regions[Len(regions)].a.n_value ELSE None

\* CrossSection.manning_n_channel: the first region starting at or past the
\* left bank, else the last region
manning_n_channel(xs) ==
    LET regions == xs.a.manning_regions.e
        banks == xs.a.bank_stations
    IN  IF regions = <<>> \/ ~Truthy(banks) THEN None
        ELSE LET hits == {k \in 1..Len(regions) :
                            regions[k].a.start_station.n >= banks.a.left.n}
             IN  IF hits # {}
                 THEN regions[CHOOSE k \in hits : \A m \in hits : k <= m].a.n_value
                 ELSE regions[Len(regions)].a.n_value

BridgeDeck(width) == Obj("BridgeDeck", [width |-> Num(width)])

Bridge(river_station, deck) ==
    Obj("Bridge", [river_station |-> Num(river_station), deck |-> deck])

GeometryFile(cross_sections, bridges) ==
    Obj("GeometryFile",
        [cross_sections |-> List(cross_sections), bridges |-> List(bridges)])

EncroachmentSettings(enabled, method, values) ==
    Obj("EncroachmentSettings",
        [enabled |-> Bool(enabled), method |-> Num(method),
         values |-> List(values)])

\* EncroachmentSettings.is_floodway
is_floodway(enc) == enc.a.enabled.b /\ enc.a.method.n \in {4, 5}

\* EncroachmentSettings.target_surcharge
target_surcharge(enc) ==
    IF is_floodway(enc) /\ Truthy(enc.a.values) THEN enc.a.values.e[1] ELSE None

PlanFile(title, encroachment) ==
    Obj("PlanFile", [title |-> Str(title), encroachment |-> encroachment])

FlowProfile(name) == Obj("FlowProfile", [name |-> Str(name)])

BoundaryCondition(k) == Obj("BoundaryCondition", [profile_number |-> Num(k)])

FlowFile(is_steady, profiles, steady_boundaries, unsteady_boundaries) ==
    Obj("FlowFile",
        [is_steady |-> Bool(is_steady),
         profiles |-> List(profiles),
         steady_boundaries |-> List(steady_boundaries),
         unsteady_boundaries |-> List(unsteady_boundaries)])

\* FlowFile.profile_names
profile_names(flow) ==
    List([k \in 1..Len(flow.a.profiles.e) |-> flow.a.profiles.e[k].a.name])

ModelData(geometry, plan, flow, project) ==
    Obj("ModelData",
        [geometry |-> geometry, plan |-> plan, flow |-> flow, project |-> project])

(***************************************************************************)
(* Path resolution (engine.py, 67-115)                                     *)
(***************************************************************************)
\* getattr(obj, part, None): a field, a property, or None
GetAttr(obj, part) ==
    IF obj.t # "obj" THEN None
    ELSE IF obj.cls = "CrossSection" /\ part = "manning_n_left" THEN manning_n_left(obj)
    ELSE IF obj.cls = "CrossSection" /\ part = "manning_n_right" THEN manning_n_right(obj)
    ELSE IF obj.cls = "CrossSection" /\ part = "manning_n_channel" THEN manning_n_channel(obj)
    ELSE IF obj.cls = "EncroachmentSettings" /\ part = "target_surcharge" THEN target_surcharge(obj)
    ELSE IF obj.cls = "EncroachmentSettings" /\ part = "is_floodway" THEN Bool(is_floodway(obj))
    ELSE IF obj.cls = "FlowFile" /\ part = "profile_names" THEN profile_names(obj)
    ELSE IF part \in DOMAIN obj.a THEN obj.a[part]
    ELSE None

\* index of the first piece of c equal to x, 0 when there is none
IndexOf(c, x) ==
    IF \E k \in 1..Len(c) : c[k] = x
    THEN CHOOSE k \in 1..Len(c) : c[k] = x /\ \A m \in 1..(k - 1) : c[m] # x
    ELSE 0

RECURSIVE SplitDot(_)
\* path.split("."): the names between the dots, "" for an empty one
SplitDot(c) ==
    LET k == IndexOf(c, ".")
    IN  IF k = 0 THEN <<Concat(c)>>
        ELSE <<Concat(SubSeq(c, 1, k - 1))>> \o SplitDot(SubSeq(c, k + 1, Len(c)))

RECURSIVE RStripDot(_)
RStripDot(c) ==
    IF c # <<>> /\ c[Len(c)] = "." THEN RStripDot(SubSeq(c, 1, Len(c) - 1)) ELSE c

RECURSIVE LStripDot(_)
LStripDot(c) == IF c # <<>> /\ Head(c) = "." THEN LStripDot(Tail(c)) ELSE c

\* only the first name of the path walked
WalkFirstPart(obj, parts) ==
    IF parts = <<>> \/ IsNone(obj) THEN obj ELSE GetAttr(obj, Head(parts))

RECURSIVE WalkParts(_, _)
WalkParts(obj, parts) ==
    IF parts = <<>> THEN obj
    ELSE IF IsNone(obj) THEN None
    ELSE WalkParts(GetAttr(obj, Head(parts)), Tail(parts))

\* _getattr_path(obj, path), path given by its tokens
getattr_path(obj, path) == WalkParts(obj, SplitDot(path))

\* hasattr(container, "__iter__")
IsIterable(v) == v.t \in {"list", "str"}

\* the items a for loop draws from a list or a string
Items(v) ==
    IF v.t = "list" THEN v.e
    ELSE [k \in 1..Len(v.c) |-> Str(<<v.c[k]>>)]

\* both overbank pairs appended whether or not the value is None
ItemPairsBothSides(item, field_path) ==
    LET station == GetAttr(item, "river_station")
        loc == IF ~IsNone(station) THEN "RS " \o StrOf(station) ELSE ""
    IN  IF field_path = <<"manning_n_overbank">>
        THEN <<[val |-> GetAttr(item, "manning_n_left"),
                loc |-> IF loc # "" THEN loc \o " LOB" ELSE "LOB"],
               [val |-> GetAttr(item, "manning_n_right"),
                loc |-> IF loc # "" THEN loc \o " ROB" ELSE "ROB"]>>
        ELSE <<[val |-> getattr_path(item, field_path), loc |-> loc]>>

\* the pairs one item of the container contributes (engine.py, 96-109)
ItemPairs(item, field_path) ==
    LET station == GetAttr(item, "river_station")
        loc == IF ~IsNone(station) THEN "RS " \o StrOf(station) ELSE ""
    IN  IF field_path = <<"manning_n_overbank">>
        THEN LET left == GetAttr(item, "manning_n_left")
                 right == GetAttr(item, "manning_n_right")
             IN  (IF ~IsNone(left)
                  THEN <<[val |-> left,
                          loc |-> IF loc # "" THEN loc \o " LOB" ELSE "LOB"]>>
                  ELSE <<>>)
                 \o
                 (IF ~IsNone(right)
                  THEN <<[val |-> right,
                          loc |-> IF loc # "" THEN loc \o " ROB" ELSE "ROB"]>>
                  ELSE <<>>)
        ELSE <<[val |-> getattr_path(item, field_path), loc |-> loc]>>

\* the pairs of the first item only
CollectFirstItem(items, field_path) ==
    IF items = <<>> THEN <<>> ELSE ItemPairs(Head(items), field_path)

RECURSIVE CollectPairs(_, _)
\* the loop over the container (engine.py, 95-109)
CollectPairs(items, field_path) ==
    IF items = <<>> THEN <<>>
    ELSE ItemPairs(Head(items), field_path) \o CollectPairs(Tail(items), field_path)

\* a container that is absent or no collection resolved as one None value
resolve_values_none_pair(model, applies_to) ==
    IF applies_to.t # "str" THEN [ok |-> FALSE, vals |-> <<>>]
    ELSE LET p == applies_to.c
             k == IndexOf(p, "[]")
         IN  IF k # 0
             THEN LET container == getattr_path(model, RStripDot(SubSeq(p, 1, k - 1)))
                  IN  IF IsNone(container) \/ ~IsIterable(container)
                      THEN [ok |-> TRUE, vals |-> <<[val |-> None, loc |-> ""]>>]
                      ELSE [ok |-> TRUE,
                            vals |-> CollectPairs(Items(container),
                                                  LStripDot(SubSeq(p, k + 1, Len(p))))]
             ELSE [ok |-> TRUE,
                   vals |-> <<[val |-> getattr_path(model, p), loc |-> ""]>>]

\* _resolve_values(model, applies_to): ok is FALSE when it raises (an
\* applies_to that is not a string has no "in" and no partition/split)
resolve_values(model, applies_to) ==
    IF applies_to.t # "str" THEN [ok |-> FALSE, vals |-> <<>>]
    ELSE LET p == applies_to.c
             k == IndexOf(p, "[]")
         IN  IF k # 0
             THEN LET container_path == RStripDot(SubSeq(p, 1, k - 1))
                      field_path == LStripDot(SubSeq(p, k + 1, Len(p)))
                      container == getattr_path(model, container_path)
                  IN  IF IsNone(container) \/ ~IsIterable(container)
                      THEN [ok |-> TRUE, vals |-> <<>>]
                      ELSE [ok |-> TRUE,
                            vals |-> CollectPairs(Items(container), field_path)]
             ELSE [ok |-> TRUE,
                   vals |-> <<[val |-> getattr_path(model, p), loc |-> ""]>>]


(***************************************************************************)
(* Rule dicts and results (engine.py, 48-60)                               *)
(***************************************************************************)
EmptyDict == Dict(<<>>)

HasKey(dict, k) == k \in DOMAIN dict.d

\* dict.get(k, default)
DictGet(dict, k, default) == IF HasKey(dict, k) THEN dict.d[k] ELSE default

\* the dict without key k
DictDrop(dict, k) == Dict([j \in DOMAIN dict.d \ {k} |-> dict.d[j]])

\* the dict with key k set to v
DictPut(dict, k, v) ==
    Dict([j \in DOMAIN dict.d \cup {k} |-> IF j = k THEN v ELSE dict.d[j]])

RuleResult(rule_id, rule_name, status, severity, actual_value, expected_value, citation, citation_url, message, location) ==
    [rule_id |-> rule_id, rule_name |-> rule_name, status |-> status,
     severity |-> severity, actual_value |-> actual_value,
     expected_value |-> expected_value, citation |-> citation,
     citation_url |-> citation_url, message |-> message, location |-> location]

\* what a function returns: a value, or an exception leaving it
Return(v) == [ok |-> TRUE, v |-> v]
Raise == [ok |-> FALSE, v |-> <<>>]

\* rule["id"], rule["name"], rule["severity"], rule["citation"] all succeed
HasResultKeys(rule) ==
    /\ HasKey(rule, "id")
    /\ HasKey(rule, "name")
    /\ HasKey(rule, "severity")
    /\ HasKey(rule, "citation")

\* ComplianceEngine._skipped(rule, reason, location)
skipped(rule, reason, location) ==
    IF ~HasResultKeys(rule) THEN Raise
    ELSE Return(RuleResult(rule.d.id, rule.d.name, "SKIPPED", rule.d.severity,
                           "", "", rule.d.citation,
                           DictGet(rule, "citation_url", EmptyStr),
                           reason, location))

(***************************************************************************)
(* Generic checks (engine.py, 238-306)                                     *)
(***************************************************************************)
\* FAIL kept for severity "error", WARNING for every other severity
FailStatusErrorOnly(rule) ==
    IF PyEq(rule.d.severity, S("error")) THEN "FAIL" ELSE "WARNING"

\* "WARNING" if rule["severity"] == "warning" else "FAIL"
FailStatus(rule) == IF PyEq(rule.d.severity, S("warning")) THEN "WARNING" ELSE "FAIL"

\* ComplianceEngine._check_range(rule, val, location)
check_range(rule, val, location) ==
    LET params == DictGet(rule, "parameters", EmptyDict)
    IN  IF params.t # "dict" THEN Raise
        ELSE LET lo == DictGet(params, "min", NegInf)
                 hi == DictGet(params, "max", PosInf)
                 c1 == Leq(lo, val)
                 c2 == Leq(val, hi)
             IN  IF ~c1.ok \/ (c1.v /\ ~c2.ok) THEN Raise
                 ELSE LET passed == c1.v /\ c2.v
                      IN  IF ~HasResultKeys(rule) THEN Raise
                          ELSE Return(RuleResult(
                                 rule.d.id, rule.d.name,
                                 IF passed THEN "PASS" ELSE FailStatus(rule),
                                 rule.d.severity, StrOf(val),
                                 StrOf(lo) \o " - " \o StrOf(hi),
                                 rule.d.citation,
                                 DictGet(rule, "citation_url", EmptyStr),
                                 IF passed
                                 THEN "Value " \o StrOf(val) \o " is within range ["
                                      \o StrOf(lo) \o ", " \o StrOf(hi) \o "]."
                                 ELSE "Value " \o StrOf(val) \o " is outside range ["
                                      \o StrOf(lo) \o ", " \o StrOf(hi) \o "].",
                                 location))

\* the expected value read from a key the parameters do not have
check_exact_wrong_key(rule, val, location) ==
    LET params == DictGet(rule, "parameters", EmptyDict)
    IN  IF params.t # "dict" THEN Raise
        ELSE LET expected == DictGet(params, "expected", None)
                 passed == PyEq(val, expected)
             IN  IF ~HasResultKeys(rule) THEN Raise
                 ELSE Return(RuleResult(
                        rule.d.id, rule.d.name,
                        IF passed THEN "PASS" ELSE FailStatus(rule),
                        rule.d.severity, StrOf(val), StrOf(expected),
                        rule.d.citation,
                        DictGet(rule, "citation_url", EmptyStr),
                        "Value " \o StrOf(val)
                            \o (IF passed THEN " matches" ELSE " does not match")
                            \o " expected " \o StrOf(expected) \o ".",
                        location))

\* ComplianceEngine._check_exact(rule, val, location)
check_exact(rule, val, location) ==
    LET params == DictGet(rule, "parameters", EmptyDict)
    IN  IF params.t # "dict" THEN Raise
        ELSE LET expected == DictGet(params, "value", None)
                 passed == PyEq(val, expected)
             IN  IF ~HasResultKeys(rule) THEN Raise
                 ELSE Return(RuleResult(
                        rule.d.id, rule.d.name,
                        IF passed THEN "PASS" ELSE FailStatus(rule),
                        rule.d.severity, StrOf(val), StrOf(expected),
                        rule.d.citation,
                        DictGet(rule, "citation_url", EmptyStr),
                        "Value " \o StrOf(val)
                            \o (IF passed THEN " matches" ELSE " does not match")
                            \o " expected " \o StrOf(expected) \o ".",
                        location))

\* ComplianceEngine._check_exists(rule, val, location)
check_exists(rule, val, location) ==
    IF ~HasResultKeys(rule) THEN Raise
    ELSE Return(RuleResult(rule.d.id, rule.d.name, "PASS", rule.d.severity,
                           StrOf(val), "present", rule.d.citation,
                           DictGet(rule, "citation_url", EmptyStr),
                           "Value is present.", location))

(***************************************************************************)
(* Custom handlers (rules/checks/*.py)                                     *)
(***************************************************************************)
\* str.lower() on one character, over the letters the profile names use
LowerChar(ch) ==
    CASE ch = "Y" -> "y"
      [] ch = "R" -> "r"
      [] ch = "B" -> "b"
      [] ch = "F" -> "f"
      [] OTHER -> ch

\* s.lower()
Lower(c) == [k \in 1..Len(c) |-> LowerChar(c[k])]

IsSpace(ch) == ch = " "

RECURSIVE LStrip(_)
LStrip(c) == IF c # <<>> /\ IsSpace(Head(c)) THEN LStrip(Tail(c)) ELSE c

RECURSIVE RStrip(_)
RStrip(c) ==
    IF c # <<>> /\ IsSpace(c[Len(c)]) THEN RStrip(SubSeq(c, 1, Len(c) - 1)) ELSE c

\* s.strip()
Strip(c) == LStrip(RStrip(c))

\* the strings of a list of Str nodes, each rendered
Rendered(e) == [k \in 1..Len(e) |-> StrOf(e[k])]

\* profiles._make_result(rule, status=, actual=, expected=, message=)
make_result(rule, status, actual, expected, message) ==
    IF ~HasResultKeys(rule) THEN Raise
    ELSE Return([rule_id |-> rule.d.id, rule_name |-> rule.d.name,
                 status |-> status, severity |-> rule.d.severity,
                 actual_value |-> actual, expected_value |-> expected,
                 citation |-> rule.d.citation, message |-> message])

\* one raw result as the list a handler returns, or the exception
AsList(r) == IF r.ok THEN Return(<<r.v>>) ELSE Raise

\* accepted_names can be iterated and holds only strings, as n.lower() and
\* ", ".join need: a list of str, or a str (its characters)
IsStrList(v) ==
    \/ v.t = "str"
    \/ v.t = "list" /\ \A k \in 1..Len(v.e) : v.e[k].t = "str"

\* an absent flow reported as a failure, and nothing else checked
profile_exists_absent_fails(rule, model_data) ==
    AsList(make_result(rule, "FAIL", "no flow data", "",
                       "No flow file loaded; cannot check profile names."))

\* profiles.check_profile_exists(rule, model_data)
check_profile_exists(rule, model_data) ==
    IF IsNone(model_data.a.flow)
    THEN AsList(make_result(rule, "SKIPPED", "no flow data", "",
                            "No flow file loaded; cannot check profile names."))
    ELSE IF ~HasKey(rule, "parameters") THEN Raise
    ELSE LET params == rule.d.parameters
             given == DictGet(params, "accepted_names", List(<<>>))
             names == List(Items(given))
             present == profile_names(model_data.a.flow)
         IN  IF params.t # "dict" \/ ~IsStrList(given) THEN Raise
             ELSE LET accepted == {Concat(Lower(names.e[k].c)) : k \in 1..Len(names.e)}
                      shown == JoinWith(", ", Rendered(present.e))
                      matched == \E k \in 1..Len(present.e) :
                                    Concat(Lower(Strip(present.e[k].c))) \in accepted
                  IN  IF ~Truthy(present)
                      THEN AsList(make_result(rule, "SKIPPED", "no profiles",
                                              JoinWith(", ", Rendered(names.e)),
                                              "Flow file contains no profiles."))
                      ELSE IF ~HasKey(params, "accepted_names") THEN Raise
                      ELSE IF matched
                      THEN AsList(make_result(
                             rule, "PASS", shown,
                             "one of: " \o JoinWith(", ", Rendered(names.e)),
                             "Required profile found in: " \o shown \o "."))
                      ELSE AsList(make_result(
                             rule, "FAIL", shown,
                             "one of: " \o JoinWith(", ", Rendered(names.e)),
                             "No profile matching the required event was found. "
                                 \o "Profiles present: " \o shown \o "."))

\* the boundaries of both kinds counted, whatever the flow is
boundary_conditions_of_any_kind(rule, model_data) ==
    IF IsNone(model_data.a.flow)
    THEN AsList(make_result(rule, "SKIPPED", "no flow data",
                            "boundary conditions defined",
                            "No flow file loaded; cannot check boundary conditions."))
    ELSE LET flow == model_data.a.flow
             count == Len(flow.a.steady_boundaries.e)
                          + Len(flow.a.unsteady_boundaries.e)
         IN  AsList(make_result(
                 rule, IF count > 0 THEN "PASS" ELSE "FAIL",
                 ToString(count) \o " boundary conditions",
                 "at least 1 boundary condition",
                 ToString(count) \o " boundary condition(s) defined."))

\* boundaries.check_boundary_conditions_defined(rule, model_data)
check_boundary_conditions_defined(rule, model_data) ==
    IF IsNone(model_data.a.flow)
    THEN AsList(make_result(rule, "SKIPPED", "no flow data",
                            "boundary conditions defined",
                            "No flow file loaded; cannot check boundary conditions."))
    ELSE LET flow == model_data.a.flow
             steady == Truthy(flow.a.is_steady)
             count == IF steady THEN Len(flow.a.steady_boundaries.e)
                      ELSE Len(flow.a.unsteady_boundaries.e)
             bc_type == IF steady THEN "steady" ELSE "unsteady"
         IN  IF count > 0
             THEN AsList(make_result(
                    rule, "PASS",
                    ToString(count) \o " " \o bc_type \o " boundary conditions",
                    "at least 1 boundary condition",
                    ToString(count) \o " " \o bc_type \o " boundary condition(s) defined."))
             ELSE AsList(make_result(
                    rule, "FAIL", "0 " \o bc_type \o " boundary conditions",
                    "at least 1 boundary condition",
                    "No " \o bc_type \o " boundary conditions found. Every reach "
                        \o "endpoint must have an assigned boundary condition."))

\* the severity the rule declares kept in the result
flag_with_rule_severity(rule, model_data) ==
    IF ~HasKey(rule, "parameters") \/ ~HasResultKeys(rule) THEN Raise
    ELSE IF rule.d.parameters.t # "dict" THEN Raise
    ELSE LET note == DictGet(rule.d.parameters, "review_note",
                             S("Manual review required."))
             text == IF note.t = "str" THEN Concat(Strip(note.c)) ELSE StrOf(note)
         IN  Return(<<[rule_id |-> rule.d.id, rule_name |-> rule.d.name,
                       status |-> "PASS", severity |-> rule.d.severity,
                       actual_value |-> "flagged for review",
                       expected_value |-> "manual verification",
                       citation |-> rule.d.citation, message |-> text]>>)

\* review.flag_for_manual_review(rule, model_data); a note that is not a
\* string is kept as it is, and shown here by its str()
flag_for_manual_review(rule, model_data) ==
    IF ~HasKey(rule, "parameters") \/ ~HasResultKeys(rule) THEN Raise
    ELSE IF rule.d.parameters.t # "dict" THEN Raise
    ELSE LET note == DictGet(rule.d.parameters, "review_note",
                             S("Manual review required."))
             text == IF note.t = "str" THEN Concat(Strip(note.c)) ELSE StrOf(note)
         IN  Return(<<[rule_id |-> rule.d.id, rule_name |-> rule.d.name,
                       status |-> "PASS", severity |-> S("info"),
                       actual_value |-> "flagged for review",
                       expected_value |-> "manual verification",
                       citation |-> rule.d.citation, message |-> text]>>)

\* the keys of checks.HANDLER_REGISTRY
HANDLER_REGISTRY ==
    {"check_profile_exists", "check_100yr_profile_exists",
     "check_boundary_conditions_defined", "flag_for_manual_review"}

\* HANDLER_REGISTRY[name](rule, model)
CallHandler(name, rule, model) ==
    CASE name \in {"check_profile_exists", "check_100yr_profile_exists"} ->
            check_profile_exists(rule, model)
      [] name = "check_boundary_conditions_defined" ->
            check_boundary_conditions_defined(rule, model)
      [] OTHER -> flag_for_manual_review(rule, model)

\* the RuleResult the engine builds from one raw result (engine.py, 325-336)
FromRaw(r, rule) ==
    RuleResult(r.rule_id, r.rule_name, r.status, r.severity, r.actual_value,
               r.expected_value, r.citation,
               DictGet(rule, "citation_url", EmptyStr), r.message, "")

\* the handler called without the registry lookup
run_custom_unchecked(rule, model) ==
    LET params == DictGet(rule, "parameters", EmptyDict)
        raw == CallHandler(StrOf(DictGet(params, "handler", EmptyStr)), rule, model)
    IN  IF params.t # "dict" THEN Raise
        ELSE IF ~raw.ok THEN Raise
        ELSE Return([k \in 1..Len(raw.v) |-> FromRaw(raw.v[k], rule)])

\* ComplianceEngine._run_custom(rule, model): the list of results, or the
\* exception
run_custom(rule, model) ==
    LET params == DictGet(rule, "parameters", EmptyDict)
    IN  IF params.t # "dict" THEN Raise
        ELSE LET handler_name == DictGet(params, "handler", EmptyStr)
             IN  IF handler_name.t \in {"list", "dict"} THEN Raise
                 ELSE IF handler_name.t # "str"
                         \/ Concat(handler_name.c) \notin HANDLER_REGISTRY
                 THEN AsList(skipped(rule,
                                     "Unknown handler: " \o StrOf(handler_name), ""))
                 ELSE LET raw == CallHandler(Concat(handler_name.c), rule, model)
                      IN  IF ~raw.ok THEN Raise
                          ELSE Return([k \in 1..Len(raw.v) |-> FromRaw(raw.v[k], rule)])

(***************************************************************************)
(* Rule lists: the rules of the shipped configuration the tests describe,  *)
(* two misconfigured ones, and the ways an entry can be malformed          *)
(***************************************************************************)
Rule(id, name, severity, check_type, applies_to, parameters) ==
    Dict([id |-> Str(id), name |-> S(name), severity |-> S(severity),
          citation |-> S("Citation of " \o Concat(id)),
          check_type |-> S(check_type), parameters |-> Dict(parameters),
          applies_to |-> Str(applies_to)])

ChannelRule ==
    Rule(<<"FEMA", "-", "MANN", "-", "001">>, "Channel Manning's n", "error", "range",
         <<"geometry", ".", "cross_sections", "[]", ".", "manning_n_channel">>,
         [min |-> Num(20), max |-> Num(150)])

OverbankRule ==
    Rule(<<"FEMA", "-", "MANN", "-", "002">>, "Overbank Manning's n", "error", "range",
         <<"geometry", ".", "cross_sections", "[]", ".", "manning_n_overbank">>,
         [min |-> Num(20), max |-> Num(200)])

ExpansionRule ==
    Rule(<<"FEMA", "-", "COEF", "-", "002">>, "Expansion coefficient", "warning", "range",
         <<"geometry", ".", "cross_sections", "[]", ".", "expansion">>,
         [min |-> Num(300), max |-> Num(500)])

SurchargeRule ==
    Rule(<<"FEMA", "-", "FW", "-", "001">>, "Floodway surcharge", "error", "range",
         <<"plan", ".", "encroachment", ".", "target_surcharge">>,
         [min |-> Num(0), max |-> Num(1000)])

BridgeRule ==
    Rule(<<"FEMA", "-", "BRG", "-", "001">>, "Bridge deck defined", "warning", "exists",
         <<"geometry", ".", "bridges", "[]", ".", "deck">>,
         <<>>)

ProfileRule ==
    Rule(<<"FEMA", "-", "EVENT", "-", "001">>, "100-year profile", "error", "custom",
         <<"flow", ".", "profiles">>,
         [handler |-> S("check_100yr_profile_exists"),
          accepted_names |-> List(<<Str(<<"1", "0", "0", "y", "r">>),
                                    Str(<<"B", "a", "s", "e", " ", "F", "l", "o", "o", "d">>)>>)])

BoundaryRule ==
    Rule(<<"FEMA", "-", "BC", "-", "001">>, "Boundary conditions", "error", "custom",
         <<"flow">>,
         [handler |-> S("check_boundary_conditions_defined")])

ReviewRule ==
    Rule(<<"TX", "-", "FB", "-", "001">>, "Freeboard", "info", "custom",
         <<"geometry">>,
         [handler |-> S("flag_for_manual_review"),
          review_note |-> Str(<<" ", "Review freeboard.", " ">>)])

MethodRule ==
    Rule(<<"XX", "-", "ENC", "-", "001">>, "Encroachment method", "warning", "exact",
         <<"plan", ".", "encroachment", ".", "method">>,
         [value |-> Num(4)])

InfoRule ==
    Rule(<<"XX", "-", "COEF", "-", "009">>, "Contraction coefficient", "info", "range",
         <<"geometry", ".", "cross_sections", "[]", ".", "contraction">>,
         [min |-> Num(100), max |-> Num(300)])

\* a typo in check_type
TypoCheckRule ==
    Rule(<<"XX", "-", "TYPO", "-", "001">>, "Typo in check_type", "error", "rnage",
         <<"geometry", ".", "cross_sections", "[]", ".", "expansion">>,
         [min |-> Num(0), max |-> Num(1)])

\* a typo in the handler name
TypoHandlerRule ==
    Rule(<<"XX", "-", "TYPO", "-", "002">>, "Typo in handler", "error", "custom",
         <<"flow">>,
         [handler |-> S("check_profile_exist")])

RuleCatalog ==
    {ChannelRule, OverbankRule, SurchargeRule, BridgeRule, ProfileRule,
     ReviewRule, TypoCheckRule, TypoHandlerRule}

Faults == {"drop_citation", "max_null", "applies_to_null", "not_a_mapping"}

\* the entry a malformed configuration yields in place of rule
Malformed(rule, fault) ==
    CASE fault = "drop_citation" -> DictDrop(rule, "citation")
      [] fault = "max_null" ->
            DictPut(rule, "parameters",
                    DictPut(DictGet(rule, "parameters", EmptyDict), "max", None))
      [] fault = "applies_to_null" -> DictPut(rule, "applies_to", None)
      [] OTHER -> S("oops")

\* the rule list with entry k malformed
Inject(list, k, fault) ==
    [n \in 1..Len(list) |-> IF n = k THEN Malformed(list[n], fault) ELSE list[n]]

(***************************************************************************)
(* Model data                                                              *)
(***************************************************************************)
EmptyModel == ModelData(None, None, None, None)

Banks == BankStations(100, 300)

\* a cross-section with the three usual Manning regions
XS(station, n_left, n_channel, n_right, expansion) ==
    CrossSection(station,
                 <<ManningRegion(n_left, 0), ManningRegion(n_channel, 100),
                   ManningRegion(n_right, 300)>>,
                 Banks, expansion, 100)

\* every value at a bound of its rule or inside
GoodModel ==
    ModelData(
        GeometryFile(<<XS(5000, 60, 20, 200, 300), XS(4000, 20, 150, 60, 500)>>,
                     <<Bridge(3500, BridgeDeck(40))>>),
        PlanFile(<<"Test">>, EncroachmentSettings(TRUE, 4, <<Num(1000), Num(0)>>)),
        FlowFile(TRUE,
                 <<FlowProfile(<<"1", "0", "y", "r">>),
                   FlowProfile(<<" ", "1", "0", "0", "Y", "R">>)>>,
                 <<BoundaryCondition(1), BoundaryCondition(2)>>, <<>>),
        None)

\* values just outside the ranges, after one inside
BadModel ==
    ModelData(
        GeometryFile(<<XS(5000, 201, 19, 19, 0), XS(4000, 60, 35, 60, 300),
                       XS(3000, 60, 151, 60, 501)>>,
                     <<>>),
        PlanFile(<<"Test">>, EncroachmentSettings(TRUE, 5, <<Num(1001)>>)),
        FlowFile(TRUE,
                 <<FlowProfile(<<"1", "0", "y", "r">>),
                   FlowProfile(<<"5", "0", "y", "r">>)>>,
                 <<>>, <<BoundaryCondition(1)>>),
        None)

\* a cross-section without Manning regions before one with, a bridge
\* without deck, no floodway, an unsteady flow without boundaries
PartialModel ==
    ModelData(
        GeometryFile(<<CrossSection(5000, <<>>, None, 0, 0),
                       XS(4000, 60, 35, 60, 300)>>,
                     <<Bridge(3500, None), Bridge(3400, BridgeDeck(40))>>),
        PlanFile(<<"Test">>, EncroachmentSettings(FALSE, 0, <<Num(0)>>)),
        FlowFile(FALSE, <<>>, <<BoundaryCondition(1)>>, <<>>),
        None)

Models == {EmptyModel, GoodModel, BadModel, PartialModel}

(***************************************************************************)
(* ComplianceEngine.evaluate (engine.py, 175-232) as a state machine: one  *)
(* step per rule dispatched, per resolved location checked, per exception  *)
(* handled.  Two calls are modelled; each engine holds its rule list.      *)
(***************************************************************************)
MaxRules == 2

Calls == {1, 2}
Engines == {1, 2}

\* the rule lists a configuration can load: 1..MaxRules entries
RuleLists == UNION {[1..n -> RuleCatalog] : n \in 1..MaxRules}

VARIABLES
    rules,      \* rules[e]: the rule list of engine e (self.rules)
    model,      \* model[c]: the Model Data passed to call c
    eng,        \* eng[c]: the engine call c runs on
    pc,         \* pc[c]: where call c stands
    idx,        \* idx[c]: the position in self.rules of the rule at hand
    values,     \* values[c]: the resolved pairs of the rule at hand
    pos,        \* pos[c]: the position in values[c] of the pair at hand
    out,        \* out[c]: the results of the rule at hand so far
    results,    \* results[c]: the list evaluate accumulates and returns
    mark,       \* mark[c][n]: Len(results[c]) when rule n was dispatched
    raised,     \* raised[c][n]: where evaluating rule n raised, "" if nowhere
    config,     \* the arguments of ComplianceEngine(...) for engine 1 and the
                \* rule files on disk (_FEMA_RULES, _STATES_DIR)
    loaded,     \* "no" before engine 1 is constructed, then "yes", or
                \* "raised" when load_rules raised
    report      \* report[c]: the lines of the report generated from the
                \* results of call c, <<>> before it is generated

vars == <<rules, model, eng, pc, idx, values, pos, out, results, mark, raised,
          config, loaded, report>>

(***************************************************************************)
(* load_rules (engine.py, 122-155).  A path is given by what is found at   *)
(* it: nothing, a text yaml.safe_load rejects, or a text it parses to data *)
(***************************************************************************)
NoFile == [t |-> "path", exists |-> FALSE, parses |-> FALSE, data |-> None]
BadYaml == [t |-> "path", exists |-> TRUE, parses |-> FALSE, data |-> None]
YamlFile(data) == [t |-> "path", exists |-> TRUE, parses |-> TRUE, data |-> data]

\* yaml.safe_load(file.read_text()): read_text raises on a missing file,
\* safe_load on a text that is no YAML; an empty text loads as None
safe_load(file) ==
    IF file.exists /\ file.parses THEN Return(file.data) ELSE Raise

\* the Texas overlay taken for a state that has no file
StateFileOrTexas(state) ==
    IF Concat(Lower(state.c)) \in DOMAIN config.STATES_DIR
    THEN config.STATES_DIR[Concat(Lower(state.c))]
    ELSE IF "texas" \in DOMAIN config.STATES_DIR THEN config.STATES_DIR["texas"]
    ELSE NoFile

\* _STATES_DIR / f"{state.lower()}.yaml"
StateFile(state) ==
    LET name == Concat(Lower(state.c))
    IN  IF name \in DOMAIN config.STATES_DIR THEN config.STATES_DIR[name] ELSE NoFile

\* data.get(key, []) or []
GetOrEmpty(data, key) ==
    LET v == DictGet(data, key, List(<<>>))
    IN  IF Truthy(v) THEN v ELSE List(<<>>)

\* list(v), set(v), list.extend(v) draw the items of v: they raise when v
\* is not iterable (the inputs drawn hold no mapping in such a place)
Iterates(v) == IsIterable(v)

\* r["id"] not in supersedes: ok is FALSE when r["id"] raises
NotSuperseded(r, supersedes) ==
    IF r.t = "dict" /\ HasKey(r, "id") /\ r.d.id.t \notin {"list", "dict"}
    THEN [ok |-> TRUE, v |-> ~\E s \in supersedes : PyEq(r.d.id, s)]
    ELSE [ok |-> FALSE, v |-> FALSE]

\* every baseline rule kept
KeepAll(list, supersedes) == list

\* [r for r in rules if r["id"] not in supersedes]
RECURSIVE Survivors(_, _)
Survivors(list, supersedes) ==
    IF list = <<>> THEN <<>>
    ELSE (IF NotSuperseded(Head(list), supersedes).v THEN <<Head(list)>> ELSE <<>>)
         \o Survivors(Tail(list), supersedes)

\* the overlay branch (lines 148-153) for an overlay file that exists
MergeOverlay(baseline, st_file) ==
    LET st_data == safe_load(st_file)
    IN  IF ~st_data.ok \/ st_data.v.t # "dict" THEN Raise
        ELSE LET sup == GetOrEmpty(st_data.v, "supersedes")
                 more == GetOrEmpty(st_data.v, "rules")
                 supersedes == {Items(sup)[k] : k \in 1..Len(Items(sup))}
                 kept == IF supersedes # {}
                         THEN Survivors(baseline, supersedes)
                         ELSE baseline
             IN  IF ~Iterates(sup) THEN Raise
                 ELSE IF \E x \in supersedes : x.t \in {"list", "dict"} THEN Raise
                 ELSE IF supersedes # {}
                         /\ \E k \in 1..Len(baseline) :
                                ~NotSuperseded(baseline[k], supersedes).ok
                 THEN Raise
                 ELSE IF ~Iterates(more) THEN Raise
                 ELSE Return(kept \o Items(more))

\* load_rules(state, fema_path, state_path)
load_rules(state, fema_path, state_path) ==
    LET fema_file == IF ~IsNone(fema_path) THEN fema_path ELSE config.FEMA_RULES
        fema_data == safe_load(fema_file)
        st_file == IF IsNone(state_path) /\ Truthy(state)
                   THEN StateFile(state)
                   ELSE state_path
    IN  IF ~fema_data.ok \/ fema_data.v.t # "dict" THEN Raise
        ELSE LET listed == DictGet(fema_data.v, "rules", List(<<>>))
             IN  IF ~Iterates(listed) THEN Raise
                 ELSE IF ~IsNone(st_file) /\ st_file.exists
                 THEN MergeOverlay(Items(listed), st_file)
                 ELSE Return(Items(listed))

\* the configuration of an engine constructed on one rules file
ConfigOf(list) ==
    [state |-> None, fema_path |-> YamlFile(Dict([rules |-> List(list)])),
     state_path |-> None, FEMA_RULES |-> NoFile, STATES_DIR |-> <<>>]

\* engine 1 is constructed with the rule list, both calls get the model
InitWith(list, m) ==
    /\ rules = [e \in Engines |-> IF e = 1 THEN list ELSE <<>>]
    /\ model = [c \in Calls |-> m]
    /\ eng = [c \in Calls |-> 1]
    /\ pc = [c \in Calls |-> "idle"]
    /\ idx = [c \in Calls |-> 0]
    /\ values = [c \in Calls |-> <<>>]
    /\ pos = [c \in Calls |-> 0]
    /\ out = [c \in Calls |-> <<>>]
    /\ results = [c \in Calls |-> <<>>]
    /\ mark = [c \in Calls |-> <<>>]
    /\ raised = [c \in Calls |-> <<>>]
    /\ config = ConfigOf(list)
    /\ loaded = "yes"
    /\ report = [c \in Calls |-> <<>>]

Init == \E list \in RuleLists, m \in Models : InitWith(list, m)

Finished(c) == pc[c] \in {"done", "raised"}

\* evaluate has returned its list
Done(c) == pc[c] = "done"

\* a second engine is constructed from the configuration of engine 1 with
\* entry k malformed
ConstructMalformed(k, fault) ==
    /\ Finished(1)
    /\ pc[2] = "idle"
    /\ rules[2] = <<>>
    /\ k \in 1..Len(rules[1])
    /\ rules[1][k].t = "dict"
    /\ rules' = [rules EXCEPT ![2] = Inject(rules[1], k, fault)]
    /\ UNCHANGED <<report, config, loaded, model, eng, pc, idx, values, pos, out, results,
                   mark, raised>>

\* one list shared by the calls: a call starts on what the other holds
SharedResults(c) == results[3 - c]

\* the list of the first call kept for the second
KeptResults(c) == IF c = 2 THEN results[1] ELSE <<>>

\* results: list[RuleResult] = []
NewResults(c) == <<>>

\* the new results put in front
ExtendFront(list, more) == more \o list

\* results.extend(more), results.append(one)
Extend(list, more) == list \o more

\* evaluate(model) is called on engine e: line 177
Evaluate(c, e) ==
    /\ pc[c] = "idle"
    /\ rules[e] # <<>>
    /\ c = 2 => Finished(1)
    /\ eng' = [eng EXCEPT ![c] = e]
    /\ results' = [results EXCEPT ![c] = NewResults(c)]
    /\ idx' = [idx EXCEPT ![c] = 1]
    /\ pc' = [pc EXCEPT ![c] = "loop"]
    /\ UNCHANGED <<report, config, loaded, rules, model, values, pos, out, mark, raised>>

CurrentRule(c) == rules[eng[c]][idx[c]]

\* the exception leaves _evaluate_rule: control goes to the except clause
Throw(c, place) ==
    /\ pc' = [pc EXCEPT ![c] = "except"]
    /\ raised' = [raised EXCEPT ![c] = Append(@, place)]

\* the rule's results are in: results.extend(...), next rule
Deliver(c, more) ==
    /\ results' = [results EXCEPT ![c] = Extend(@, more)]
    /\ idx' = [idx EXCEPT ![c] = @ + 1]
    /\ pc' = [pc EXCEPT ![c] = "loop"]
    /\ raised' = [raised EXCEPT ![c] = Append(@, "")]

\* _evaluate_rule up to its loop over the resolved values (lines 204-215)
Dispatch(c) ==
    /\ pc[c] = "loop"
    /\ idx[c] <= Len(rules[eng[c]])
    /\ mark' = [mark EXCEPT ![c] = Append(@, Len(results[c]))]
    /\ LET rule == CurrentRule(c)
       IN  IF rule.t # "dict"
           THEN /\ Throw(c, "dispatch")
                /\ UNCHANGED <<results, idx, values, pos, out>>
           ELSE IF PyEq(DictGet(rule, "check_type", EmptyStr), S("custom"))
           THEN LET r == run_custom(rule, model[c])
                IN  IF r.ok
                    THEN /\ Deliver(c, r.v)
                         /\ UNCHANGED <<values, pos, out>>
                    ELSE /\ Throw(c, "custom")
                         /\ UNCHANGED <<results, idx, values, pos, out>>
           ELSE LET rv == resolve_values(model[c], DictGet(rule, "applies_to", EmptyStr))
                    sk == skipped(rule, "Data not available", "")
                IN  IF ~rv.ok
                    THEN /\ Throw(c, "resolve")
                         /\ UNCHANGED <<results, idx, values, pos, out>>
                    ELSE IF rv.vals = <<>>
                    THEN IF sk.ok
                         THEN /\ Deliver(c, <<sk.v>>)
                              /\ UNCHANGED <<values, pos, out>>
                         ELSE /\ Throw(c, "check")
                              /\ UNCHANGED <<results, idx, values, pos, out>>
                    ELSE /\ values' = [values EXCEPT ![c] = rv.vals]
                         /\ pos' = [pos EXCEPT ![c] = 1]
                         /\ out' = [out EXCEPT ![c] = <<>>]
                         /\ pc' = [pc EXCEPT ![c] = "values"]
                         /\ UNCHANGED <<results, idx, raised>>
    /\ UNCHANGED <<report, config, loaded, rules, model, eng>>

\* a None value reported as missing data
CheckValueNoneAsNoData(rule, val, location) ==
    LET check_type == DictGet(rule, "check_type", EmptyStr)
    IN  IF IsNone(val) THEN skipped(rule, "Data not available", "")
        ELSE IF PyEq(check_type, S("range")) THEN check_range(rule, val, location)
        ELSE IF PyEq(check_type, S("exact")) THEN check_exact(rule, val, location)
        ELSE IF PyEq(check_type, S("exists")) THEN check_exists(rule, val, location)
        ELSE skipped(rule, "Unknown check_type: " \o StrOf(check_type), location)

\* an unknown check type taken for an exists check
CheckValueDefaultExists(rule, val, location) ==
    LET check_type == DictGet(rule, "check_type", EmptyStr)
    IN  IF IsNone(val) THEN skipped(rule, "Value is None", location)
        ELSE IF PyEq(check_type, S("range")) THEN check_range(rule, val, location)
        ELSE IF PyEq(check_type, S("exact")) THEN check_exact(rule, val, location)
        ELSE check_exists(rule, val, location)

\* the check without the "val is None" guard
CheckValueUnguarded(rule, val, location) ==
    LET check_type == DictGet(rule, "check_type", EmptyStr)
    IN  IF PyEq(check_type, S("range")) THEN check_range(rule, val, location)
        ELSE IF PyEq(check_type, S("exact")) THEN check_exact(rule, val, location)
        ELSE IF PyEq(check_type, S("exists")) THEN check_exists(rule, val, location)
        ELSE skipped(rule, "Unknown check_type: " \o StrOf(check_type), location)

\* the check of one resolved pair (lines 217-230)
CheckValue(rule, val, location) ==
    LET check_type == DictGet(rule, "check_type", EmptyStr)
    IN  IF IsNone(val) THEN skipped(rule, "Value is None", location)
        ELSE IF PyEq(check_type, S("range")) THEN check_range(rule, val, location)
        ELSE IF PyEq(check_type, S("exact")) THEN check_exact(rule, val, location)
        ELSE IF PyEq(check_type, S("exists")) THEN check_exists(rule, val, location)
        ELSE skipped(rule, "Unknown check_type: " \o StrOf(check_type), location)

\* one turn of the loop over the resolved values
CheckLocation(c) ==
    /\ pc[c] = "values"
    /\ pos[c] <= Len(values[c])
    /\ LET pair == values[c][pos[c]]
           r == CheckValue(CurrentRule(c), pair.val, pair.loc)
       IN  IF r.ok
           THEN /\ out' = [out EXCEPT ![c] = Extend(@, <<r.v>>)]
                /\ pos' = [pos EXCEPT ![c] = @ + 1]
                /\ UNCHANGED <<pc, raised>>
           ELSE /\ Throw(c, "check")
                /\ UNCHANGED <<out, pos>>
    /\ UNCHANGED <<report, config, loaded, rules, model, eng, idx, values, results, mark>>

\* return out (line 232) and results.extend of it (line 180)
FinishRule(c) ==
    /\ pc[c] = "values"
    /\ pos[c] > Len(values[c])
    /\ Deliver(c, out[c])
    /\ UNCHANGED <<report, config, loaded, rules, model, eng, values, pos, out, mark>>

\* rule.setdefault(key, default): the defaults written into the rule
RuleAfterSetdefault(rule) ==
    LET defaults == [id |-> S("?"), name |-> S("?"), severity |-> S("error"),
                     citation |-> EmptyStr, citation_url |-> EmptyStr]
    IN  Dict([k \in DOMAIN rule.d \cup DOMAIN defaults |->
                IF k \in DOMAIN rule.d THEN rule.d[k] ELSE defaults[k]])

\* rule.get(key, default) in the except clause (lines 187-195) reads the
\* rule: a missing key yields the default and the rule stays without it
RuleAfterGet(rule) == rule

\* the error Result without anything of the rule
ErrorResultAnonymous(rule) ==
    RuleResult(S("?"), S("?"), "SKIPPED", S("error"), "", "", EmptyStr, EmptyStr,
               "Internal error evaluating rule.", "")

\* the Result the except clause appends (lines 186-196)
ErrorResult(rule) ==
    RuleResult(DictGet(rule, "id", S("?")), DictGet(rule, "name", S("?")),
               "SKIPPED", DictGet(rule, "severity", S("error")), "", "",
               DictGet(rule, "citation", EmptyStr),
               DictGet(rule, "citation_url", EmptyStr),
               "Internal error evaluating rule.", "")

\* the list replaced by the error Result
AfterErrorAlone(list, rule) == <<ErrorResult(rule)>>

\* what the except clause makes of the list: the error Result is appended
AfterError(list, rule) == Extend(list, <<ErrorResult(rule)>>)

\* the except clause (lines 181-196): rule.get raises in it when the entry
\* is no mapping, and that exception leaves evaluate
HandleException(c) ==
    /\ pc[c] = "except"
    /\ LET rule == CurrentRule(c)
       IN  IF rule.t = "dict"
           THEN /\ results' = [results EXCEPT ![c] = AfterError(@, rule)]
                /\ rules' = [rules EXCEPT ![eng[c]][idx[c]] = RuleAfterGet(@)]
                /\ idx' = [idx EXCEPT ![c] = @ + 1]
                /\ pc' = [pc EXCEPT ![c] = "loop"]
           ELSE /\ pc' = [pc EXCEPT ![c] = "raised"]
                /\ UNCHANGED <<results, idx, rules>>
    /\ UNCHANGED <<report, config, loaded, model, eng, values, pos, out, mark, raised>>

\* return results (line 197)
ReturnResults(c) ==
    /\ pc[c] = "loop"
    /\ idx[c] > Len(rules[eng[c]])
    /\ pc' = [pc EXCEPT ![c] = "done"]
    /\ UNCHANGED <<report, config, loaded, rules, model, eng, idx, values, pos, out, results, mark, raised>>

Next ==
    \/ \E k \in 1..MaxRules, fault \in Faults : ConstructMalformed(k, fault)
    \/ \E c \in Calls, e \in Engines : Evaluate(c, e)
    \/ \E c \in Calls : Dispatch(c)
    \/ \E c \in Calls : CheckLocation(c)
    \/ \E c \in Calls : FinishRule(c)
    \/ \E c \in Calls : HandleException(c)
    \/ \E c \in Calls : ReturnResults(c)

Spec == Init /\ [][Next]_vars

(***************************************************************************)
(* A third family of inputs: engine 1 is constructed from rule files.      *)
(* The baseline and the Texas overlay follow the shipped files the tests   *)
(* describe; the others are what a rules file can hold instead             *)
(***************************************************************************)
\* TX-FW-001: zero rise, min = max = 0
TexasSurchargeRule ==
    Rule(<<"TX", "-", "FW", "-", "001">>, "Zero-rise floodway", "error", "range",
         <<"plan", ".", "encroachment", ".", "target_surcharge">>,
         [min |-> Num(0), max |-> Num(0)])

\* a range rule whose parameters carry no max
NoMaxRule ==
    Rule(<<"XX", "-", "MANN", "-", "009">>, "Channel n, no max", "error", "range",
         <<"geometry", ".", "cross_sections", "[]", ".", "manning_n_channel">>,
         [min |-> Num(20)])

\* an overlay rule under the id of a baseline rule
ReusedIdRule ==
    Rule(<<"FEMA", "-", "MANN", "-", "001">>, "Channel n, state limits", "warning", "range",
         <<"geometry", ".", "cross_sections", "[]", ".", "manning_n_channel">>,
         [min |-> Num(30), max |-> Num(100)])

FemaRules == <<ChannelRule, SurchargeRule, BridgeRule>>
RulesFile(list) == YamlFile(Dict([rules |-> List(list)]))
Overlay(supersedes, list) ==
    YamlFile(Dict([supersedes |-> supersedes, rules |-> list]))

FemaFile == RulesFile(FemaRules)
TexasFile ==
    Overlay(List(<<SurchargeRule.d.id>>), List(<<TexasSurchargeRule, ReviewRule>>))

BaselineFiles ==
    {FemaFile,
     RulesFile(<<ChannelRule, DictDrop(SurchargeRule, "id")>>),
     RulesFile(<<ChannelRule, ChannelRule>>),
     YamlFile(Dict([metadata |-> S("FEMA")])),
     YamlFile(Dict([rules |-> None])),
     YamlFile(None),
     BadYaml,
     NoFile}

OverlayFiles ==
    {TexasFile,
     Overlay(List(<<>>), List(<<ReviewRule>>)),
     Overlay(None, List(<<ReviewRule>>)),
     YamlFile(Dict([rules |-> List(<<ReviewRule>>)])),
     YamlFile(Dict([supersedes |-> List(<<SurchargeRule.d.id>>)])),
     Overlay(List(<<SurchargeRule.d.id>>), None),
     Overlay(List(<<ReviewRule.d.id>>), List(<<ReviewRule>>)),
     Overlay(List(<<ChannelRule.d.id, SurchargeRule.d.id, BridgeRule.d.id>>),
             List(<<TexasSurchargeRule>>)),
     Overlay(List(<<BridgeRule.d.id, ChannelRule.d.id>>), List(<<>>)),
     Overlay(List(<<>>), List(<<ReusedIdRule>>)),
     Overlay(List(<<ChannelRule.d.id>>), List(<<ReusedIdRule>>)),
     Overlay(List(<<SurchargeRule.d.id>>), List(<<NoMaxRule>>)),
     Overlay(List(<<SurchargeRule.d.id>>), List(<<TypoHandlerRule>>)),
     YamlFile(None),
     YamlFile(List(<<ReviewRule>>)),
     BadYaml,
     NoFile}

\* the state key and whether state_path is given
LoadArgs ==
    {<<None, FALSE>>, <<S("texas"), FALSE>>, <<Str(<<"T", "E", "X", "A", "S">>), FALSE>>,
     <<S("utopia"), FALSE>>, <<EmptyStr, FALSE>>, <<S("utopia"), TRUE>>, <<None, TRUE>>}

LoadModels == {GoodModel, BadModel}

\* files on disk and constructor arguments; nothing is constructed yet
InitLoad ==
    \E fema \in BaselineFiles, st \in OverlayFiles, a \in LoadArgs, m \in LoadModels,
       by_path \in BOOLEAN :
        /\ fema = FemaFile \/ st = TexasFile
        /\ config = [state |-> a[1],
                     fema_path |-> IF by_path THEN fema ELSE None,
                     state_path |-> IF a[2] THEN st ELSE None,
                     FEMA_RULES |-> IF by_path THEN NoFile ELSE fema,
                     STATES_DIR |-> IF a[2] THEN <<>> ELSE [t \in {"texas"} |-> st]]
        /\ loaded = "no"
        /\ report = [c \in Calls |-> <<>>]
        /\ rules = [e \in Engines |-> <<>>]
        /\ model = [c \in Calls |-> m]
        /\ eng = [c \in Calls |-> 1]
        /\ pc = [c \in Calls |-> "idle"]
        /\ idx = [c \in Calls |-> 0]
        /\ values = [c \in Calls |-> <<>>]
        /\ pos = [c \in Calls |-> 0]
        /\ out = [c \in Calls |-> <<>>]
        /\ results = [c \in Calls |-> <<>>]
        /\ mark = [c \in Calls |-> <<>>]
        /\ raised = [c \in Calls |-> <<>>]

\* ComplianceEngine.__init__ (lines 165-173): self.rules = load_rules(...)
Construct ==
    /\ loaded = "no"
    /\ LET r == load_rules(config.state, config.fema_path, config.state_path)
       IN  IF r.ok
           THEN /\ rules' = [rules EXCEPT ![1] = r.v]
                /\ loaded' = "yes"
           ELSE /\ loaded' = "raised"
                /\ UNCHANGED rules
    /\ UNCHANGED <<report, config, model, eng, pc, idx, values, pos, out, results, mark,
                   raised>>

NextLoad == Construct \/ Next

SpecLoad == InitLoad /\ [][NextLoad]_vars

(***************************************************************************)
(* A second family of inputs: one generic rule over one cross-section,     *)
(* every severity and generic check type against values around the bounds *)
(***************************************************************************)
GridSeverities == {"error", "warning", "info"}
GridChecks == {"range", "exact", "exists"}
\* (min, max) of the rule; parameters.value is min
GridBounds == {<<20, 150>>, <<0, 0>>}
GridValues == {-1, 0, 1, 19, 20, 21, 149, 150, 151}

GridRule(severity, check_type, b) ==
    Rule(<<"GRID", "-", "001">>, "Grid rule", severity, check_type,
         <<"geometry", ".", "cross_sections", "[]", ".", "manning_n_channel">>,
         [min |-> Num(b[1]), max |-> Num(b[2]), value |-> Num(b[1])])

GridModel(v) ==
    ModelData(GeometryFile(<<XS(5000, 60, v, 60, 300)>>, <<>>), None, None, None)

InitGrid ==
    \E severity \in GridSeverities, check_type \in GridChecks,
       b \in GridBounds, v \in GridValues :
        InitWith(<<GridRule(severity, check_type, b)>>, GridModel(v))

SpecGrid == InitGrid /\ [][Next]_vars

(***************************************************************************)
(* A fourth family of inputs: one rule at the edges of the configuration   *)
(* (collections that yield nothing, unknown check types and handlers,      *)
(* scalar paths through absent attributes) against every model            *)
(***************************************************************************)
\* the collection marker on an attribute that is no collection
NotIterableRule ==
    Rule(<<"XX", "-", "ENC", "-", "002">>, "Encroachment values", "error", "range",
         <<"plan", ".", "encroachment", "[]", ".", "method">>,
         [min |-> Num(0), max |-> Num(5)])

\* no check_type key at all
NoCheckTypeRule == DictDrop(ChannelRule, "check_type")

\* custom rules without a handler name, and without parameters
NoHandlerRule == DictPut(TypoHandlerRule, "parameters", EmptyDict)
NoParametersRule == DictDrop(TypoHandlerRule, "parameters")

\* scalar paths: through an attribute PlanFile does not have, to a
\* sub-model, and to an attribute of the absent project
AbsentSegmentRule ==
    Rule(<<"XX", "-", "PATH", "-", "001">>, "Absent segment", "warning", "exists",
         <<"plan", ".", "floodway", ".", "target_surcharge">>, <<>>)
SubModelRule ==
    Rule(<<"XX", "-", "PATH", "-", "002">>, "Geometry loaded", "warning", "exists",
         <<"geometry">>, <<>>)
ProjectRule ==
    Rule(<<"XX", "-", "PATH", "-", "003">>, "Project title", "info", "exists",
         <<"project", ".", "title">>, <<>>)

\* a collection whose elements have no river_station
ProfileNameRule ==
    Rule(<<"XX", "-", "EVENT", "-", "002">>, "Profile named", "warning", "exists",
         <<"flow", ".", "profiles", "[]", ".", "name">>, <<>>)

EdgeRules ==
    {NotIterableRule, OverbankRule, BridgeRule, ChannelRule, TypoCheckRule,
     NoCheckTypeRule, TypoHandlerRule, NoHandlerRule, NoParametersRule,
     SurchargeRule, MethodRule, AbsentSegmentRule, SubModelRule, ProjectRule,
     ProfileNameRule}

\* cross-sections none of which has Manning regions
NoRegionsModel ==
    ModelData(
        GeometryFile(<<CrossSection(5000, <<>>, None, 0, 0),
                       CrossSection(4000, <<>>, None, 300, 100)>>,
                     <<Bridge(3500, None)>>),
        PlanFile(<<"Test">>, EncroachmentSettings(TRUE, 4, <<Num(500)>>)),
        None, None)

\* a geometry without cross-sections and without bridges
NoSectionsModel ==
    ModelData(GeometryFile(<<>>, <<>>),
              PlanFile(<<"Test">>, EncroachmentSettings(TRUE, 4, <<Num(500)>>)),
              None, None)

EdgeModels == Models \cup {NoRegionsModel, NoSectionsModel}

InitEdge == \E rule \in EdgeRules, m \in EdgeModels : InitWith(<<rule>>, m)

SpecEdge == InitEdge /\ [][Next]_vars

(***************************************************************************)
(* A fifth family of inputs: one rule per built-in handler, with the ways  *)
(* its parameters can be written, and one generic rule, against models     *)
(* that differ in their flow                                               *)
(***************************************************************************)
\* an accepted name written with a blank in front
PaddedNamesRule ==
    DictPut(ProfileRule, "parameters",
            Dict([handler |-> S("check_profile_exists"),
                  accepted_names |-> List(<<Str(<<" ", "5", "0", "y", "r">>)>>)]))

\* a review rule that declares severity "error", and one without a note
StrictReviewRule ==
    Rule(<<"TX", "-", "FB", "-", "002">>, "Datum", "error", "custom",
         <<"geometry">>,
         [handler |-> S("flag_for_manual_review"),
          review_note |-> Str(<<"Review datum.">>)])
NoNoteReviewRule ==
    Rule(<<"TX", "-", "FB", "-", "003">>, "Ordinance", "warning", "custom",
         <<"geometry">>,
         [handler |-> S("flag_for_manual_review")])

CustomRules ==
    {ProfileRule, PaddedNamesRule, BoundaryRule, ReviewRule, StrictReviewRule,
     NoNoteReviewRule, ChannelRule}

\* an unsteady flow with its boundaries, and without profiles
UnsteadyModel ==
    ModelData(
        GeometryFile(<<XS(5000, 60, 35, 60, 300)>>, <<>>),
        PlanFile(<<"Test">>, EncroachmentSettings(FALSE, 0, <<Num(0)>>)),
        FlowFile(FALSE, <<>>, <<>>, <<BoundaryCondition(1), BoundaryCondition(2),
                                      BoundaryCondition(3)>>),
        None)

CustomModels == Models \cup {UnsteadyModel}

InitCustom == \E rule \in CustomRules, m \in CustomModels : InitWith(<<rule>>, m)

SpecCustom == InitCustom /\ [][Next]_vars

(***************************************************************************)
(* A sixth family of inputs: two engines, each constructed with its rule   *)
(* list, and two calls, each with its Model Data, that run at the same     *)
(* time (the web application constructs an engine per request: app.py,     *)
(* 176-178): a call may start on either engine whatever the other call     *)
(* does, and the steps of the two calls interleave                         *)
(***************************************************************************)
ParLists ==
    {<<ChannelRule, ProfileRule>>,
     <<OverbankRule, Malformed(ChannelRule, "max_null")>>,
     <<ReviewRule, BridgeRule>>,
     <<Malformed(BoundaryRule, "drop_citation"), SurchargeRule>>}

ParModels == {GoodModel, BadModel, PartialModel}

InitPar ==
    \E l1 \in ParLists, l2 \in ParLists, m1 \in ParModels, m2 \in ParModels :
        /\ rules = <<l1, l2>>
        /\ model = <<m1, m2>>
        /\ eng = [c \in Calls |-> c]
        /\ pc = [c \in Calls |-> "idle"]
        /\ idx = [c \in Calls |-> 0]
        /\ values = [c \in Calls |-> <<>>]
        /\ pos = [c \in Calls |-> 0]
        /\ out = [c \in Calls |-> <<>>]
        /\ results = [c \in Calls |-> <<>>]
        /\ mark = [c \in Calls |-> <<>>]
        /\ raised = [c \in Calls |-> <<>>]
        /\ config = ConfigOf(l1)
        /\ loaded = "yes"
        /\ report = [c \in Calls |-> <<>>]

\* evaluate(model) is called on engine e while the other call may be running
EvaluateConcurrently(c, e) ==
    /\ pc[c] = "idle"
    /\ rules[e] # <<>>
    /\ eng' = [eng EXCEPT ![c] = e]
    /\ results' = [results EXCEPT ![c] = NewResults(c)]
    /\ idx' = [idx EXCEPT ![c] = 1]
    /\ pc' = [pc EXCEPT ![c] = "loop"]
    /\ UNCHANGED <<report, config, loaded, rules, model, values, pos, out, mark, raised>>

NextPar ==
    \/ \E c \in Calls, e \in Engines : EvaluateConcurrently(c, e)
    \/ \E c \in Calls : Dispatch(c)
    \/ \E c \in Calls : CheckLocation(c)
    \/ \E c \in Calls : FinishRule(c)
    \/ \E c \in Calls : HandleException(c)
    \/ \E c \in Calls : ReturnResults(c)

SpecPar == InitPar /\ [][NextPar]_vars

(***************************************************************************)
(* generate_markdown_report (reporting/markdown_report.py, 15-223).  The   *)
(* report is kept as the sequence of what it holds, in the order of its    *)
(* lines: headings, the rows of the summary, and one item per Result       *)
(* rendered (the lines of a failure, a table row, the lines of a           *)
(* recommendation) with the texts put into them.  Blank lines, the header  *)
(* table with today's date, the table rulers and the citation column are   *)
(* left out.                                                               *)
(***************************************************************************)
CATEGORY_ORDER ==
    <<"Manning's n", "Expansion / Contraction Coefficients", "Floodway / Surcharge",
      "Required Flood Events", "Bridge / Culvert", "Boundary Conditions",
      "Freeboard", "Other">>

PREFIX_TO_CATEGORY ==
    [MANN |-> "Manning's n", COEF |-> "Expansion / Contraction Coefficients",
     FW |-> "Floodway / Surcharge", EVENT |-> "Required Flood Events",
     BRG |-> "Bridge / Culvert", BC |-> "Boundary Conditions", FB |-> "Freeboard"]

STATUS_ICON == [PASS |-> "PASS", FAIL |-> "FAIL", WARNING |-> "WARN", SKIPPED |-> "SKIP"]

RECURSIVE SplitDash(_)
\* rule_id.split("-")
SplitDash(c) ==
    LET k == IndexOf(c, "-")
    IN  IF k = 0 THEN <<Concat(c)>>
        ELSE <<Concat(SubSeq(c, 1, k - 1))>> \o SplitDash(SubSeq(c, k + 1, Len(c)))

\* the category of the first part alone
categorize_first_part(rule_id) ==
    LET part == Head(SplitDash(rule_id.c))
    IN  IF part \in DOMAIN PREFIX_TO_CATEGORY THEN PREFIX_TO_CATEGORY[part]
        ELSE "Other"

RECURSIVE FirstKnown(_)
\* the loop of _categorize over the parts
FirstKnown(parts) ==
    IF parts = <<>> THEN "Other"
    ELSE IF Head(parts) \in DOMAIN PREFIX_TO_CATEGORY
    THEN PREFIX_TO_CATEGORY[Head(parts)]
    ELSE FirstKnown(Tail(parts))

\* _categorize(rule_id)
categorize(rule_id) == FirstKnown(SplitDash(rule_id.c))

Heading(level, text) == [kind |-> "heading", level |-> level, text |-> text]

\* a row "| label | n |" of the executive summary
CountRow(label, n) == [kind |-> "count", label |-> label, n |-> n]

\* counts.get(status, 0) of Counter(r.status for r in results)
CountOf(list, status) ==
    Cardinality({k \in 1..Len(list) : list[k].status = status})

\* f" at {r.location}" if r.location else ""
AtLocation(r) == IF r.location # "" THEN " at " \o r.location ELSE ""

\* x or the dash of an empty cell (an em dash, written "--" here)
OrDash(x) == IF x # "" THEN x ELSE "--"

\* the four lines of one critical failure (lines 136-140)
FailureItem(r) ==
    [kind |-> "failure", rule_id |-> StrOf(r.rule_id), rule_name |-> StrOf(r.rule_name),
     loc |-> AtLocation(r), actual |-> r.actual_value, required |-> r.expected_value,
     message |-> r.message]

\* one row of a category table (lines 164-171)
TableRow(r) ==
    [kind |-> "row",
     status |-> IF r.status \in DOMAIN STATUS_ICON THEN STATUS_ICON[r.status]
                ELSE r.status,
     rule_name |-> StrOf(r.rule_name), loc |-> OrDash(r.location),
     actual |-> OrDash(r.actual_value), expected |-> OrDash(r.expected_value)]

\* the lines of one recommendation (lines 183-203); the backquotes the
\* source puts around the two values are written as single quotes
Recommendation(r) ==
    [kind |-> "recommendation", tag |-> IF r.status = "FAIL" THEN "FAIL" ELSE "WARN",
     rule_id |-> StrOf(r.rule_id), rule_name |-> StrOf(r.rule_name),
     loc |-> AtLocation(r), issue |-> r.message, citation |-> StrOf(r.citation),
     action |-> IF r.status = "FAIL"
                THEN "Correct the value from '" \o r.actual_value
                         \o "' to within the required range of '"
                         \o r.expected_value \o "'."
                ELSE "Review the value '" \o r.actual_value
                         \o "' against the expected '" \o r.expected_value \o "'."]

\* [r for r in results if r.status == "FAIL"]
failures(list) == SelectSeq(list, LAMBDA r : r.status = "FAIL")

\* the failures taken for the actionable Results
failures_only(list) == SelectSeq(list, LAMBDA r : r.status = "FAIL")

\* [r for r in results if r.status in ("FAIL", "WARNING")]
actionable(list) == SelectSeq(list, LAMBDA r : r.status \in {"FAIL", "WARNING"})

\* the sentence under the summary table (lines 116-125)
Verdict(n_fail, n_warn) ==
    [kind |-> "verdict",
     text |-> IF n_fail = 0 /\ n_warn = 0
              THEN "All checks passed. No compliance issues detected."
              ELSE IF n_fail = 0
              THEN "No critical failures. " \o ToString(n_warn)
                       \o " warning(s) require review."
              ELSE ToString(n_fail)
                       \o " critical failure(s) must be resolved before submission."]

RECURSIVE Groups(_, _)
\* the loop over _CATEGORY_ORDER (lines 146-173): grouped[category] holds
\* the Results of the category in the order of results
Groups(list, categories) ==
    IF categories = <<>> THEN <<>>
    ELSE LET category == Head(categories)
             cat_results == SelectSeq(list,
                                      LAMBDA r : categorize(r.rule_id) = category)
         IN  (IF cat_results = <<>> THEN <<>>
              ELSE <<Heading(3, category)>>
                   \o [k \in 1..Len(cat_results) |-> TableRow(cat_results[k])])
             \o Groups(list, Tail(categories))

\* generate_markdown_report(results)
generate_markdown_report(list) ==
    LET n_fail == CountOf(list, "FAIL")
        n_warn == CountOf(list, "WARNING")
    IN  <<Heading(1, "HEC-RAS Compliance Report"),
          Heading(2, "Executive Summary"),
          CountRow("PASS", CountOf(list, "PASS")),
          CountRow("FAIL", n_fail),
          CountRow("WARNING", n_warn),
          CountRow("SKIPPED", CountOf(list, "SKIPPED")),
          CountRow("Total", Len(list)),
          Verdict(n_fail, n_warn)>>
        \o (IF failures(list) # <<>>
            THEN <<Heading(2, "Critical Failures")>>
                 \o [k \in 1..Len(failures(list)) |-> FailureItem(failures(list)[k])]
            ELSE <<>>)
        \o <<Heading(2, "Detailed Results")>>
        \o Groups(list, CATEGORY_ORDER)
        \o (IF actionable(list) # <<>>
            THEN <<Heading(2, "Recommendations")>>
                 \o [k \in 1..Len(actionable(list)) |->
                        Recommendation(actionable(list)[k])]
            ELSE <<>>)
        \o <<[kind |-> "disclaimer"]>>

\* the report is generated from what call c returned (cli.py, 230-236)
Report(c) ==
    /\ Done(c)
    /\ report[c] = <<>>
    /\ report' = [report EXCEPT ![c] = generate_markdown_report(results[c])]
    /\ UNCHANGED <<config, loaded, rules, model, eng, pc, idx, values, pos, out,
                   results, mark, raised>>

\* rule lists whose identifiers fall into several categories and into none,
\* in an order that is not the order of the categories
ReportLists ==
    {<<ChannelRule, BridgeRule, MethodRule>>,
     <<ExpansionRule, ReviewRule, ProfileRule>>,
     <<MethodRule, BoundaryRule, ChannelRule>>,
     <<OverbankRule, BridgeRule, ChannelRule>>,
     <<TypoCheckRule,
       DictPut(SurchargeRule, "id", Str(<<"TX", "-", "FW", "-", "BC", "-", "001">>)),
       InfoRule>>}

InitReport == \E list \in ReportLists, m \in Models : InitWith(list, m)

NextReport == Next \/ \E c \in Calls : Report(c)

SpecReport == InitReport /\ [][NextReport]_vars

(***************************************************************************)
(* What the claims speak of                                                *)
(***************************************************************************)
\* rule n of the list call c evaluates
RuleAt(c, n) == rules[eng[c]][n]

\* the Results call c holds for rule n: those appended since its dispatch
SegEnd(c, n) == IF n < Len(mark[c]) THEN mark[c][n + 1] ELSE Len(results[c])
Seg(c, n) ==
    IF SegEnd(c, n) <= Len(results[c])
    THEN SubSeq(results[c], mark[c][n] + 1, SegEnd(c, n))
    ELSE <<>>

IsMapping(rule) == rule.t = "dict"
AllMappings(list) == \A n \in 1..Len(list) : IsMapping(list[n])
HasCheckType(rule, ct) ==
    IsMapping(rule) /\ PyEq(DictGet(rule, "check_type", EmptyStr), S(ct))

\* the pairs the resolver yields for a generic rule that does resolve
Pairs(c, n) == resolve_values(model[c], DictGet(RuleAt(c, n), "applies_to", EmptyStr)).vals

\* rule n of call c went through its generic check without raising
Checked(c, n, ct) ==
    /\ Done(c)
    /\ HasCheckType(RuleAt(c, n), ct)
    /\ raised[c][n] = ""
    /\ Pairs(c, n) # <<>>

\* the statuses of a list of Results
Statuses(list) == [k \in 1..Len(list) |-> list[k].status]

\* the location labels of a list of Results, and of resolved pairs
Locations(list) == [k \in 1..Len(list) |-> list[k].location]
PairLocations(pairs) == [k \in 1..Len(pairs) |-> pairs[k].loc]

\* the positions in the rule list of call c whose id is the given one
PositionsOf(c, id) ==
    {n \in 1..Len(rules[eng[c]]) : PyEq(DictGet(RuleAt(c, n), "id", S("?")), id)}

DistinctIds(list) ==
    /\ AllMappings(list)
    /\ \A a, b \in 1..Len(list) : a # b => ~PyEq(list[a].d.id, list[b].d.id)

(***************************************************************************)
(* C1..C10                                                                 *)
(***************************************************************************)

\* C1 (Isolation): engine 2 holds the rule list of engine 1 with entry k
\* malformed.  If evaluating rule k on engine 2 raises in path resolution,
\* in a generic check or in a custom handler, while it evaluates without
\* error on engine 1, then evaluate on engine 2 returns, and for every
\* other rule it returns exactly the Results engine 1 returns for it on the
\* same Model Data.
Isolation ==
    (Done(1) /\ Finished(2) /\ eng[2] = 2 /\ model[2] = model[1]) =>
        \A k \in 1..Len(raised[2]) :
            (raised[2][k] \in {"resolve", "check", "custom"} /\ raised[1][k] = "") =>
                /\ Done(2)
                /\ \A n \in 1..Len(rules[2]) \ {k} : Seg(2, n) = Seg(1, n)

\* C1 witness: rule k raised part-way in its generic check on engine 2,
\* and another rule has several Results there
IsolationWitness ==
    /\ Done(1) /\ Done(2) /\ eng[2] = 2
    /\ \E k, n \in 1..Len(rules[2]) :
        /\ n < k
        /\ raised[2][k] = "check"
        /\ Len(Seg(2, n)) >= 2
        /\ Len(Seg(1, k)) >= 2

\* C2: whenever evaluating a rule raised, at whatever point, evaluate
\* returns and its output holds exactly one Result for that rule, SKIPPED,
\* and none of the Results computed for it before the exception.
OneSkippedPerRaise ==
    \A c \in Calls : \A n \in 1..Len(raised[c]) :
        (Finished(c) /\ raised[c][n] # "") =>
            /\ Done(c)
            /\ Len(Seg(c, n)) = 1
            /\ Seg(c, n)[1].status = "SKIPPED"
            /\ Seg(c, n)[1].message = "Internal error evaluating rule."

\* C3: a run always completes: evaluate never raises, and when it has
\* returned its output holds at least one Result for every loaded rule.
RunCompletes ==
    \A c \in Calls :
        /\ pc[c] # "raised"
        /\ Done(c) => \A n \in 1..Len(rules[eng[c]]) : Len(Seg(c, n)) >= 1

\* the labels the claim gives the overbank pairs: per cross-section, in
\* collection order, LOB and then ROB
RECURSIVE OverbankLabels(_)
OverbankLabels(xs) ==
    IF xs = <<>> THEN <<>>
    ELSE (IF IsNone(manning_n_left(Head(xs))) THEN <<>>
          ELSE <<"RS " \o StrOf(Head(xs).a.river_station) \o " LOB">>)
         \o (IF IsNone(manning_n_right(Head(xs))) THEN <<>>
             ELSE <<"RS " \o StrOf(Head(xs).a.river_station) \o " ROB">>)
         \o OverbankLabels(Tail(xs))

\* C4: the returned list preserves order: the Results of rule i all come
\* before those of rule j when i is before j in the rule list (told apart
\* by their rule id), every Result sits in the stretch of its own rule, and
\* within a generic rule the Results follow the resolver's pairs: element
\* order, LOB before ROB for one element.
OrderPreserved ==
    \A c \in Calls : Done(c) =>
        /\ DistinctIds(rules[eng[c]]) =>
               \A p, q \in 1..Len(results[c]) : p < q =>
                   \A a \in PositionsOf(c, results[c][p].rule_id),
                      b \in PositionsOf(c, results[c][q].rule_id) : a <= b
        /\ \A n \in 1..Len(rules[eng[c]]) :
            /\ \A k \in 1..Len(Seg(c, n)) :
                   PyEq(Seg(c, n)[k].rule_id, DictGet(RuleAt(c, n), "id", S("?")))
            /\ (/\ ~HasCheckType(RuleAt(c, n), "custom")
                /\ raised[c][n] = ""
                /\ Pairs(c, n) # <<>>)
                   => Locations(Seg(c, n)) = PairLocations(Pairs(c, n))
            /\ (/\ raised[c][n] = ""
                /\ RuleAt(c, n) = OverbankRule
                /\ ~IsNone(model[c].a.geometry)
                /\ model[c].a.geometry.a.cross_sections.e # <<>>)
                   => Locations(Seg(c, n))
                        = OverbankLabels(model[c].a.geometry.a.cross_sections.e)

\* C4 witness: two different rules with several Results each, the second
\* the overbank rule over more than one cross-section
OrderWitness ==
    \E c \in Calls :
        /\ Done(c)
        /\ Len(rules[eng[c]]) = 2
        /\ DistinctIds(rules[eng[c]])
        /\ RuleAt(c, 2) = OverbankRule
        /\ Len(Seg(c, 1)) >= 2
        /\ Len(Seg(c, 2)) >= 4

\* C5 (Idempotence): a second evaluate on the same engine with the same
\* Model Data returns a list equal to the first, element by element.
Idempotent ==
    (Done(1) /\ Finished(2) /\ eng[2] = eng[1] /\ model[2] = model[1]) =>
        /\ Done(2)
        /\ Len(results[2]) = Len(results[1])
        /\ \A k \in 1..Len(results[1]) : results[2][k] = results[1][k]

\* C5 witness: both calls on engine 1 have returned several Results, not
\* all of them SKIPPED
IdempotentWitness ==
    /\ Done(1) /\ Done(2) /\ eng[2] = eng[1]
    /\ Len(results[2]) >= 3
    /\ \E k \in 1..Len(results[2]) : results[2][k].status # "SKIPPED"

IsReviewRule(rule) ==
    /\ HasCheckType(rule, "custom")
    /\ DictGet(rule, "parameters", EmptyDict).t = "dict"
    /\ PyEq(DictGet(DictGet(rule, "parameters", EmptyDict), "handler", EmptyStr),
            S("flag_for_manual_review"))

\* call c evaluated a rule list of mappings (as the shipped rule sets are)
\* against the Model Data without any sub-model, and is over
OnEmptyModel(c) ==
    Finished(c) /\ model[c] = EmptyModel /\ AllMappings(rules[eng[c]])

Param(c, n, key) == RuleAt(c, n).d.parameters.d[key]
NumericParams(c, n, keys) ==
    /\ HasKey(RuleAt(c, n), "parameters")
    /\ RuleAt(c, n).d.parameters.t = "dict"
    /\ \A key \in keys : /\ HasKey(RuleAt(c, n).d.parameters, key)
                         /\ Param(c, n, key).t = "num"

\* C7: a range rule with parameters min and max gives a resolved non-None
\* value v the status PASS exactly when min <= v <= max, both ends
\* included.
RangeInclusive ==
    \A c \in Calls : \A n \in 1..Len(raised[c]) :
        (Checked(c, n, "range") /\ NumericParams(c, n, {"min", "max"})) =>
            /\ Len(Seg(c, n)) = Len(Pairs(c, n))
            /\ \A k \in 1..Len(Pairs(c, n)) :
                LET v == Pairs(c, n)[k].val
                IN  v.t = "num" =>
                        ((Seg(c, n)[k].status = "PASS")
                            <=> (Param(c, n, "min").n <= v.n /\ v.n <= Param(c, n, "max").n))

\* C7 witness: a value equal to max, above min, got PASS
RangeWitness ==
    \E c \in Calls : \E n \in 1..Len(raised[c]) :
        /\ Checked(c, n, "range") /\ NumericParams(c, n, {"min", "max"})
        /\ Param(c, n, "min").n < Param(c, n, "max").n
        /\ Pairs(c, n)[1].val = Param(c, n, "max")
        /\ Seg(c, n)[1].status = "PASS"

\* the value of pair k of a range rule lies outside [min, max]
OutOfRange(c, n, k) ==
    LET v == Pairs(c, n)[k].val
    IN  v.t = "num" /\ ~(Param(c, n, "min").n <= v.n /\ v.n <= Param(c, n, "max").n)

\* C8 as claimed: a failed range check is WARNING for severity "warning"
\* and FAIL otherwise, and a range rule whose severity is not "error"
\* never produces FAIL.
RangeFailOnlyForError ==
    \A c \in Calls : \A n \in 1..Len(raised[c]) :
        (Checked(c, n, "range") /\ NumericParams(c, n, {"min", "max"})) =>
            \A k \in 1..Len(Seg(c, n)) :
                /\ OutOfRange(c, n, k) =>
                       Seg(c, n)[k].status
                           = (IF PyEq(RuleAt(c, n).d.severity, S("warning"))
                              THEN "WARNING" ELSE "FAIL")
                /\ ~PyEq(RuleAt(c, n).d.severity, S("error")) =>
                       Seg(c, n)[k].status # "FAIL"

\* C8 as amended: a failed range check is WARNING for severity "warning"
\* and FAIL for every other severity ("error" and "info" alike); only a
\* range rule of severity "warning" never produces FAIL.
RangeFailStatus ==
    \A c \in Calls : \A n \in 1..Len(raised[c]) :
        (Checked(c, n, "range") /\ NumericParams(c, n, {"min", "max"})) =>
            \A k \in 1..Len(Seg(c, n)) :
                /\ OutOfRange(c, n, k) =>
                       Seg(c, n)[k].status
                           = (IF PyEq(RuleAt(c, n).d.severity, S("warning"))
                              THEN "WARNING" ELSE "FAIL")
                /\ PyEq(RuleAt(c, n).d.severity, S("warning")) =>
                       Seg(c, n)[k].status # "FAIL"

\* C8 witness: a range rule of severity "info" produced FAIL
RangeFailWitness ==
    \E c \in Calls : \E n \in 1..Len(raised[c]) :
        /\ Checked(c, n, "range") /\ NumericParams(c, n, {"min", "max"})
        /\ PyEq(RuleAt(c, n).d.severity, S("info"))
        /\ OutOfRange(c, n, 1)
        /\ Seg(c, n)[1].status = "FAIL"

\* C9: an exact rule gives a resolved non-None value v PASS exactly when v
\* equals parameters.value; on mismatch WARNING for severity "warning" and
\* FAIL for every other severity.
ExactCheck ==
    \A c \in Calls : \A n \in 1..Len(raised[c]) :
        (Checked(c, n, "exact") /\ NumericParams(c, n, {"value"})) =>
            /\ Len(Seg(c, n)) = Len(Pairs(c, n))
            /\ \A k \in 1..Len(Pairs(c, n)) :
                LET v == Pairs(c, n)[k].val
                IN  v.t = "num" =>
                        Seg(c, n)[k].status
                            = (IF v.n = Param(c, n, "value").n THEN "PASS"
                               ELSE IF PyEq(RuleAt(c, n).d.severity, S("warning"))
                               THEN "WARNING" ELSE "FAIL")

\* C9 witness: an exact rule passed a value equal to parameters.value
ExactWitness ==
    \E c \in Calls : \E n \in 1..Len(raised[c]) :
        /\ Checked(c, n, "exact") /\ NumericParams(c, n, {"value"})
        /\ Pairs(c, n)[1].val = Param(c, n, "value")
        /\ Seg(c, n)[1].status = "PASS"

\* C10: an exists rule never fails: each of its Results is PASS, for a
\* pair whose value is not None, or SKIPPED, for a pair whose value is None
\* or when nothing was resolved; never FAIL or WARNING.
ExistsNeverFails ==
    \A c \in Calls : \A n \in 1..Len(raised[c]) :
        (Done(c) /\ HasCheckType(RuleAt(c, n), "exists")) =>
            /\ \A k \in 1..Len(Seg(c, n)) : Seg(c, n)[k].status \in {"PASS", "SKIPPED"}
            /\ (raised[c][n] = "" /\ Pairs(c, n) = <<>>) => Statuses(Seg(c, n)) = <<"SKIPPED">>
            /\ (raised[c][n] = "" /\ Pairs(c, n) # <<>>) =>
                   Statuses(Seg(c, n))
                       = [k \in 1..Len(Pairs(c, n)) |->
                            IF IsNone(Pairs(c, n)[k].val) THEN "SKIPPED" ELSE "PASS"]

\* C10 witness: an exists rule returned SKIPPED for an element without the
\* value and PASS for one with it
ExistsWitness ==
    \E c \in Calls : \E n \in 1..Len(raised[c]) :
        /\ Done(c) /\ HasCheckType(RuleAt(c, n), "exists")
        /\ Statuses(Seg(c, n)) = <<"SKIPPED", "PASS">>

(***************************************************************************)
(* C11..C20                                                                *)
(***************************************************************************)
\* rule n of call c is a generic rule, evaluated to the end without raising
Generic(c, n) ==
    /\ Done(c)
    /\ IsMapping(RuleAt(c, n))
    /\ ~HasCheckType(RuleAt(c, n), "custom")
    /\ raised[c][n] = ""

\* the applies-to path of rule n has the collection marker and its
\* container is absent, no collection or empty, or it is the overbank path
\* over elements none of which has a left or a right value
YieldsNothing(c, n) ==
    LET applies_to == DictGet(RuleAt(c, n), "applies_to", EmptyStr)
        k == IndexOf(applies_to.c, "[]")
        container == getattr_path(model[c], RStripDot(SubSeq(applies_to.c, 1, k - 1)))
    IN  /\ applies_to.t = "str"
        /\ k # 0
        /\ \/ IsNone(container)
           \/ ~IsIterable(container)
           \/ Items(container) = <<>>
           \/ /\ SubSeq(applies_to.c, k + 1, Len(applies_to.c)) = <<".", "manning_n_overbank">>
              /\ \A j \in 1..Len(Items(container)) :
                    /\ IsNone(manning_n_left(Items(container)[j]))
                    /\ IsNone(manning_n_right(Items(container)[j]))

\* C11: when the applies-to path of a generic rule resolves to zero pairs
\* (container absent, not iterable, empty, or elements that all yield
\* nothing), evaluate emits exactly one Result for the rule: SKIPPED,
\* message "Data not available", empty location.
ZeroPairsOneSkipped ==
    \A c \in Calls : \A n \in 1..Len(raised[c]) :
        (Generic(c, n) /\ (YieldsNothing(c, n) \/ Pairs(c, n) = <<>>)) =>
            /\ Len(Seg(c, n)) = 1
            /\ Seg(c, n)[1].status = "SKIPPED"
            /\ Seg(c, n)[1].message = "Data not available"
            /\ Seg(c, n)[1].location = ""

\* C11 witness: the overbank rule over cross-sections without Manning
\* regions returned its one SKIPPED Result
ZeroPairsWitness ==
    \E c \in Calls :
        /\ Generic(c, 1) /\ YieldsNothing(c, 1)
        /\ RuleAt(c, 1) = OverbankRule
        /\ model[c] = NoRegionsModel
        /\ Statuses(Seg(c, 1)) = <<"SKIPPED">>

\* the Result the rule's own check gives a value that is not None
OwnCheck(rule, val, location) ==
    IF HasCheckType(rule, "range") THEN check_range(rule, val, location)
    ELSE IF HasCheckType(rule, "exact") THEN check_exact(rule, val, location)
    ELSE IF HasCheckType(rule, "exists") THEN check_exists(rule, val, location)
    ELSE skipped(rule, "Unknown check_type: "
                        \o StrOf(DictGet(rule, "check_type", EmptyStr)), location)

\* C12: every resolved pair of a generic rule whose value is None gets
\* exactly one Result, SKIPPED with message "Value is None" and the pair's
\* location, no check having run on it; the other pairs of the rule get
\* the Result of the rule's check.
NoneValueSkipped ==
    \A c \in Calls : \A n \in 1..Len(raised[c]) :
        (Generic(c, n) /\ Pairs(c, n) # <<>>) =>
            /\ Len(Seg(c, n)) = Len(Pairs(c, n))
            /\ \A k \in 1..Len(Pairs(c, n)) :
                LET pair == Pairs(c, n)[k]
                    r == Seg(c, n)[k]
                IN  IF IsNone(pair.val)
                    THEN /\ r.status = "SKIPPED"
                         /\ r.message = "Value is None"
                         /\ r.location = pair.loc
                         /\ r.actual_value = "" /\ r.expected_value = ""
                    ELSE /\ r.message # "Value is None"
                         /\ r = OwnCheck(RuleAt(c, n), pair.val, pair.loc).v

\* C12 witness: a range rule skipped the cross-section without a channel
\* value and passed the next one
NoneValueWitness ==
    \E c \in Calls :
        /\ Generic(c, 1)
        /\ HasCheckType(RuleAt(c, 1), "range")
        /\ Len(Seg(c, 1)) = 2
        /\ Seg(c, 1)[1].message = "Value is None"
        /\ Seg(c, 1)[1].location = "RS 5000"
        /\ Seg(c, 1)[2].status = "PASS"

\* the check_type of the rule, "" when it has none, is none of the four
UnknownCheckType(rule) ==
    /\ IsMapping(rule)
    /\ \A ct \in {"range", "exact", "exists", "custom"} : ~HasCheckType(rule, ct)

\* C13: for a rule whose check_type is none of range, exact, exists and
\* custom, a missing one included, evaluate does not raise, every Result
\* of the rule is SKIPPED with a message, and for every location with a
\* non-None value the message names the unknown check type.
UnknownCheckTypeSkipped ==
    \A c \in Calls : \A n \in 1..Len(raised[c]) :
        (Finished(c) /\ UnknownCheckType(RuleAt(c, n))) =>
            /\ Done(c)
            /\ Len(Seg(c, n)) >= 1
            /\ \A k \in 1..Len(Seg(c, n)) :
                /\ Seg(c, n)[k].status = "SKIPPED"
                /\ Seg(c, n)[k].message # ""
            /\ (raised[c][n] = "" /\ Pairs(c, n) # <<>>) =>
                /\ Len(Seg(c, n)) = Len(Pairs(c, n))
                /\ \A k \in 1..Len(Pairs(c, n)) :
                    ~IsNone(Pairs(c, n)[k].val) =>
                        Seg(c, n)[k].message
                            = "Unknown check_type: "
                                \o StrOf(DictGet(RuleAt(c, n), "check_type", EmptyStr))

\* C13 witness: the rule with the misspelt check_type returned a SKIPPED
\* Result naming it for a location with a value
UnknownCheckTypeWitness ==
    \E c \in Calls :
        /\ Done(c) /\ UnknownCheckType(RuleAt(c, 1)) /\ raised[c][1] = ""
        /\ Len(Seg(c, 1)) = Len(Pairs(c, 1))
        /\ \E k \in 1..Len(Pairs(c, 1)) :
            /\ ~IsNone(Pairs(c, 1)[k].val)
            /\ Seg(c, 1)[k].message = "Unknown check_type: rnage"

\* the handler name of a custom rule, "" when parameters or handler is
\* missing
HandlerName(rule) ==
    DictGet(DictGet(rule, "parameters", EmptyDict), "handler", EmptyStr)

\* a custom rule whose handler name is missing or not in the registry
UnknownHandler(rule) ==
    /\ HasCheckType(rule, "custom")
    /\ DictGet(rule, "parameters", EmptyDict).t = "dict"
    /\ HandlerName(rule).t = "str"
    /\ Concat(HandlerName(rule).c) \notin HANDLER_REGISTRY

\* C14: for a custom rule whose parameters.handler is missing or no key of
\* the handler registry, evaluate does not raise and emits exactly one
\* Result for the rule, SKIPPED with a message naming the handler; no
\* handler is invoked (the Result is not one a handler makes).
UnknownHandlerSkipped ==
    \A c \in Calls : \A n \in 1..Len(raised[c]) :
        (Finished(c) /\ UnknownHandler(RuleAt(c, n))) =>
            /\ Done(c)
            /\ Len(Seg(c, n)) = 1
            /\ Seg(c, n)[1].status = "SKIPPED"
            /\ raised[c][n] = "" =>
                /\ Seg(c, n)[1].message
                       = "Unknown handler: " \o StrOf(HandlerName(RuleAt(c, n)))
                /\ Seg(c, n)[1].actual_value = ""
                /\ Seg(c, n)[1].expected_value = ""

\* C14 witness: the rule with the misspelt handler name returned its one
\* SKIPPED Result on a model the profile handler would have failed
UnknownHandlerWitness ==
    \E c \in Calls :
        /\ Done(c) /\ RuleAt(c, 1) = TypoHandlerRule
        /\ model[c] = BadModel
        /\ Len(Seg(c, 1)) = 1
        /\ Seg(c, 1)[1].message = "Unknown handler: check_profile_exist"

\* the baseline file load_rules reads and the rules it lists
BaselineFile == IF ~IsNone(config.fema_path) THEN config.fema_path ELSE config.FEMA_RULES
BaselineRules == Items(DictGet(BaselineFile.data, "rules", List(<<>>)))
BaselineReadable ==
    /\ BaselineFile.exists /\ BaselineFile.parses
    /\ BaselineFile.data.t = "dict"
    /\ DictGet(BaselineFile.data, "rules", List(<<>>)).t = "list"

\* the name of the overlay file the state key stands for
OverlayName == Concat(Lower(config.state.c))

\* the overlay file load_rules looks for: the one at state_path, else the
\* one of the state key, else none
OverlayGiven == ~IsNone(config.state_path) \/ Truthy(config.state)
OverlayFile ==
    IF ~IsNone(config.state_path) THEN config.state_path
    ELSE IF OverlayName \in DOMAIN config.STATES_DIR THEN config.STATES_DIR[OverlayName]
    ELSE NoFile

\* an overlay that exists and holds a mapping with lists (or nothing)
\* under supersedes and rules
OverlayReadable ==
    /\ OverlayGiven
    /\ OverlayFile.exists /\ OverlayFile.parses
    /\ OverlayFile.data.t = "dict"
    /\ DictGet(OverlayFile.data, "supersedes", None).t \in {"none", "list"}
    /\ DictGet(OverlayFile.data, "rules", None).t \in {"none", "list"}

\* the overlay's supersedes set and its rules
Superseded ==
    LET v == DictGet(OverlayFile.data, "supersedes", None)
    IN  IF v.t = "list" THEN {v.e[k] : k \in 1..Len(v.e)} ELSE {}
OverlayRules ==
    LET v == DictGet(OverlayFile.data, "rules", None)
    IN  IF v.t = "list" THEN v.e ELSE <<>>

IdIn(rule, ids) ==
    IsMapping(rule) /\ HasKey(rule, "id") /\ \E s \in ids : PyEq(rule.d.id, s)

\* the superseded ids that a baseline rule carries
SupersededBaselineIds ==
    {s \in Superseded : \E k \in 1..Len(BaselineRules) : IdIn(BaselineRules[k], {s})}

\* the baseline rules whose id is not superseded, in baseline order
KeptBaseline ==
    LET Kept(r) == ~IdIn(r, Superseded)
    IN  SelectSeq(BaselineRules, Kept)

\* engine 1 was constructed from a readable baseline and an existing,
\* readable overlay
Merged == loaded = "yes" /\ BaselineReadable /\ OverlayReadable

NoSuchOverlay ==
    /\ IsNone(config.state_path)
    /\ Truthy(config.state)
    /\ \/ OverlayName \notin DOMAIN config.STATES_DIR
       \/ ~config.STATES_DIR[OverlayName].exists

\* C16: with an overlay key for which no overlay rule set exists,
\* load_rules returns exactly the baseline list (same rules, same order,
\* those an existing overlay would supersede included), as it does with
\* no overlay key.
UnknownOverlayIsBaseline ==
    (NoSuchOverlay /\ loaded # "no" /\ BaselineReadable) =>
        /\ loaded = "yes"
        /\ rules[1] = BaselineRules
        /\ load_rules(None, config.fema_path, None) = Return(rules[1])

\* C16 witness: the key of a state without a file, next to the Texas
\* overlay on disk, loaded the whole baseline
UnknownOverlayWitness ==
    /\ NoSuchOverlay /\ loaded = "yes"
    /\ "texas" \in DOMAIN config.STATES_DIR
    /\ config.STATES_DIR["texas"] = TexasFile
    /\ rules[1] = FemaRules

\* the overlay file exists but is unparseable, empty or not a mapping
OverlayMalformed ==
    /\ OverlayGiven
    /\ OverlayFile.exists
    /\ ~OverlayFile.parses \/ OverlayFile.data.t # "dict"

\* C17: when the optional overlay is present but unreadable or malformed
\* (unparseable, empty, not a mapping), load_rules does not raise and
\* returns the baseline rules only, as when the overlay is absent.
MalformedOverlayIsBaseline ==
    (OverlayMalformed /\ loaded # "no" /\ BaselineReadable) =>
        /\ loaded = "yes"
        /\ rules[1] = BaselineRules

DistinctIdsIn(list) ==
    \A a, b \in 1..Len(list) :
        (a # b /\ IsMapping(list[a]) /\ IsMapping(list[b])
            /\ HasKey(list[a], "id") /\ HasKey(list[b], "id"))
                => ~PyEq(list[a].d.id, list[b].d.id)

\* C18: the list load_rules returns holds no two rules with the same id,
\* also when an overlay rule reuses the id of a baseline rule that the
\* overlay does not supersede (baseline and overlay each with distinct
\* ids).
MergedIdsUnique ==
    (Merged /\ DistinctIdsIn(BaselineRules) /\ DistinctIdsIn(OverlayRules))
        => DistinctIdsIn(rules[1])

\* a range rule with numeric min <= max, a custom rule with a handler of
\* the registry; nothing is asked of the other rules
ValidParameters(rule) ==
    /\ HasCheckType(rule, "range") =>
           LET params == DictGet(rule, "parameters", EmptyDict)
           IN  /\ params.t = "dict"
               /\ DictGet(params, "min", None).t = "num"
               /\ DictGet(params, "max", None).t = "num"
               /\ params.d.min.n <= params.d.max.n
    /\ HasCheckType(rule, "custom") =>
           /\ DictGet(rule, "parameters", EmptyDict).t = "dict"
           /\ HandlerName(rule).t = "str"
           /\ Concat(HandlerName(rule).c) \in HANDLER_REGISTRY

\* C19: every range rule in the list the engine evaluates carries numeric
\* min and max with min <= max and every custom rule a handler name of the
\* registry; a range rule lacking min or max is never evaluated as a valid
\* rule (it yields no PASS, FAIL or WARNING).
LoadedRulesValid ==
    loaded = "yes" =>
        /\ \A n \in 1..Len(rules[1]) : ValidParameters(rules[1][n])
        /\ \A c \in Calls : \A n \in 1..Len(raised[c]) :
            (/\ Done(c) /\ eng[c] = 1
             /\ HasCheckType(RuleAt(c, n), "range")
             /\ ~ValidParameters(RuleAt(c, n)))
                => \A k \in 1..Len(Seg(c, n)) : Seg(c, n)[k].status = "SKIPPED"

\* the attribute names of a path given as names separated by "." tokens
NamesOf(path) == [i \in 1..((Len(path) + 1) \div 2) |-> path[2 * i - 1]]

\* the walk the claim describes: from obj along the names, None as soon as
\* the object at hand is None or lacks the name
RECURSIVE WalkFrom(_, _)
WalkFrom(obj, names) ==
    IF names = <<>> THEN obj
    ELSE IF IsNone(obj) \/ obj.t # "obj" THEN None
    ELSE IF IsNone(GetAttr(obj, Head(names))) THEN None
    ELSE WalkFrom(GetAttr(obj, Head(names)), Tail(names))

\* rule n of call c is a generic rule whose applies-to path is a string
\* without the collection marker
ScalarRule(rule) ==
    /\ IsMapping(rule)
    /\ ~HasCheckType(rule, "custom")
    /\ DictGet(rule, "applies_to", EmptyStr).t = "str"
    /\ IndexOf(DictGet(rule, "applies_to", EmptyStr).c, "[]") = 0

\* C20: for an applies-to path without collection marker the resolver
\* returns exactly one pair, with location ""; its value is what walking
\* the dot-separated attributes from the Model Data root gives, None as
\* soon as a segment is absent or None; the resolver never raises for
\* missing data.
ScalarPathResolution ==
    \A c \in Calls :
        /\ (pc[c] = "values" /\ ScalarRule(CurrentRule(c))) =>
            /\ Len(values[c]) = 1
            /\ values[c][1].loc = ""
            /\ values[c][1].val
                   = WalkFrom(model[c], NamesOf(CurrentRule(c).d.applies_to.c))
            /\ IsNone(model[c].a.plan) /\ Head(CurrentRule(c).d.applies_to.c) = "plan"
                   => IsNone(values[c][1].val)
            /\ CurrentRule(c) = AbsentSegmentRule => IsNone(values[c][1].val)
            /\ (CurrentRule(c) = SurchargeRule /\ model[c] = GoodModel)
                   => values[c][1].val = Num(1000)
        /\ \A n \in 1..Len(raised[c]) :
            (n <= Len(rules[eng[c]]) /\ ScalarRule(RuleAt(c, n)))
                => raised[c][n] # "resolve"

\* C20 witness: a path through an attribute the plan does not have
\* resolved to the one pair (None, "") on a model that has a plan
ScalarPathWitness ==
    \E c \in Calls :
        /\ pc[c] = "values"
        /\ CurrentRule(c) = AbsentSegmentRule
        /\ model[c] = GoodModel
        /\ values[c] = <<[val |-> None, loc |-> ""]>>

(***************************************************************************)
(* C21..C30                                                                *)
(***************************************************************************)
\* the tokens of the applies-to path before and after the collection marker
ContainerPath(rule) ==
    LET p == rule.d.applies_to.c
    IN  RStripDot(SubSeq(p, 1, IndexOf(p, "[]") - 1))
FieldPath(rule) ==
    LET p == rule.d.applies_to.c
    IN  LStripDot(SubSeq(p, IndexOf(p, "[]") + 1, Len(p)))

\* a generic rule whose applies-to path holds the collection marker
MarkedRule(rule) ==
    /\ IsMapping(rule)
    /\ ~HasCheckType(rule, "custom")
    /\ DictGet(rule, "applies_to", EmptyStr).t = "str"
    /\ IndexOf(DictGet(rule, "applies_to", EmptyStr).c, "[]") # 0

\* ... and the field after the marker is an ordinary one
CollectionRule(rule) ==
    MarkedRule(rule) /\ FieldPath(rule) # <<"manning_n_overbank">>

\* the elements of the container the path names in Model Data m: none when
\* the container is absent or no collection
Elements(m, rule) ==
    LET container == WalkFrom(m, NamesOf(ContainerPath(rule)))
    IN  IF IsNone(container) \/ ~IsIterable(container) THEN <<>>
        ELSE Items(container)

\* the label of an element: its station, "" when it has none
StationLabel(item) ==
    IF item.t = "obj" /\ "river_station" \in DOMAIN item.a
       /\ ~IsNone(item.a.river_station)
    THEN "RS " \o StrOf(item.a.river_station)
    ELSE ""

\* C21 as stated, in its last part: a generic rule on a path
\* "cross_sections[].field" with an ordinary field, over a geometry of N
\* cross-sections, yields exactly N Results.
CollectionYieldsN ==
    \A c \in Calls : \A n \in 1..Len(raised[c]) :
        (/\ Generic(c, n)
         /\ CollectionRule(RuleAt(c, n))
         /\ ContainerPath(RuleAt(c, n)) = <<"geometry", ".", "cross_sections">>
         /\ WalkFrom(model[c], NamesOf(ContainerPath(RuleAt(c, n)))).t = "list")
            => Len(Seg(c, n)) = Len(Elements(model[c], RuleAt(c, n)))

\* C21, amended: for a path "container[].field" with an ordinary field the
\* resolver returns the empty list when the container is absent or not
\* iterable, and otherwise exactly one pair per element, in container
\* order, each holding the element's field value and labelled with the
\* element's station ("" when it has none).  A rule on such a path over
\* N >= 1 elements yields exactly N Results, labelled in container order;
\* over no element it yields the one SKIPPED Result "Data not available".
CollectionExpansion ==
    \A c \in Calls :
        /\ (pc[c] = "values" /\ CollectionRule(CurrentRule(c))) =>
            LET items == Elements(model[c], CurrentRule(c))
            IN  /\ Len(values[c]) = Len(items)
                /\ \A j \in 1..Len(items) :
                    /\ j <= Len(values[c])
                    /\ values[c][j].loc = StationLabel(items[j])
                    /\ values[c][j].val
                           = WalkFrom(items[j], NamesOf(FieldPath(CurrentRule(c))))
        /\ \A n \in 1..Len(raised[c]) :
            (Generic(c, n) /\ CollectionRule(RuleAt(c, n))) =>
                LET items == Elements(model[c], RuleAt(c, n))
                IN  IF items = <<>>
                    THEN /\ Pairs(c, n) = <<>>
                         /\ Statuses(Seg(c, n)) = <<"SKIPPED">>
                         /\ Seg(c, n)[1].message = "Data not available"
                    ELSE /\ Len(Seg(c, n)) = Len(items)
                         /\ Locations(Seg(c, n))
                                = [j \in 1..Len(items) |-> StationLabel(items[j])]

\* C21 witness: the channel rule over the three cross-sections of BadModel
\* returned three Results, labelled in the order of the cross-sections
CollectionWitness ==
    \E c \in Calls :
        /\ Generic(c, 1)
        /\ RuleAt(c, 1) = ChannelRule
        /\ model[c] = BadModel
        /\ Locations(Seg(c, 1)) = <<"RS 5000", "RS 4000", "RS 3000">>
        /\ Statuses(Seg(c, 1)) = <<"FAIL", "PASS", "FAIL">>

\* a generic rule on the virtual field manning_n_overbank of a collection
OverbankRuleShape(rule) ==
    MarkedRule(rule) /\ FieldPath(rule) = <<"manning_n_overbank">>

\* the label of an element with the side's suffix appended
SideLabel(item, suffix) ==
    IF StationLabel(item) # "" THEN StationLabel(item) \o " " \o suffix ELSE suffix

\* the pairs expected of the elements: for each element in turn its left
\* value under LOB, then its right value under ROB, a side whose value is
\* None left out
RECURSIVE SidePairs(_)
SidePairs(items) ==
    IF items = <<>> THEN <<>>
    ELSE LET item == Head(items)
             left == GetAttr(item, "manning_n_left")
             right == GetAttr(item, "manning_n_right")
         IN  (IF IsNone(left) THEN <<>>
              ELSE <<[val |-> left, loc |-> SideLabel(item, "LOB")]>>)
             \o (IF IsNone(right) THEN <<>>
                 ELSE <<[val |-> right, loc |-> SideLabel(item, "ROB")]>>)
             \o SidePairs(Tail(items))

NamesHandler(rule, hs) ==
    /\ HasCheckType(rule, "custom")
    /\ HasResultKeys(rule)
    /\ DictGet(rule, "parameters", EmptyDict).t = "dict"
    /\ HandlerName(rule).t = "str"
    /\ Concat(HandlerName(rule).c) \in hs

\* two names are equal when letter case and surrounding whitespace are
\* ignored in both
SameName(a, b) == Concat(Lower(Strip(a.c))) = Concat(Lower(Strip(b.c)))

\* the names of the flow's profiles, in order
PresentNames(m) ==
    [k \in 1..Len(m.a.flow.a.profiles.e) |-> m.a.flow.a.profiles.e[k].a.name]

\* the status the claim gives the profile-existence check
ProfileStatus(rule, m) ==
    LET accepted == rule.d.parameters.d.accepted_names.e
    IN  IF IsNone(m.a.flow) THEN "SKIPPED"
        ELSE IF PresentNames(m) = <<>> THEN "SKIPPED"
        ELSE IF \E p \in 1..Len(PresentNames(m)), a \in 1..Len(accepted) :
                    SameName(PresentNames(m)[p], accepted[a])
        THEN "PASS"
        ELSE "FAIL"

\* C23: the profile-existence handler returns exactly one result: SKIPPED
\* if the flow sub-model is absent, else SKIPPED if the flow has no
\* profiles, else PASS if a profile name equals one of the rule's
\* accepted_names when letter case and surrounding whitespace are ignored
\* in both, else FAIL with an actual value that lists all profile names.
ProfileExistence ==
    \A c \in Calls : \A n \in 1..Len(raised[c]) :
        (/\ Done(c)
         /\ NamesHandler(RuleAt(c, n),
                         {"check_profile_exists", "check_100yr_profile_exists"})
         /\ HasKey(RuleAt(c, n).d.parameters, "accepted_names")) =>
            /\ raised[c][n] = ""
            /\ Len(Seg(c, n)) = 1
            /\ Seg(c, n)[1].status = ProfileStatus(RuleAt(c, n), model[c])
            /\ Seg(c, n)[1].status = "FAIL" =>
                   Seg(c, n)[1].actual_value
                       = JoinWith(", ", Rendered(PresentNames(model[c])))

\* the boundary entries that count for the flow of Model Data m: the steady
\* ones of a steady flow, the unsteady ones of an unsteady flow
CountedBoundaries(m) ==
    IF m.a.flow.a.is_steady.b THEN m.a.flow.a.steady_boundaries.e
    ELSE m.a.flow.a.unsteady_boundaries.e

\* C24: the boundary-conditions handler returns exactly one result: SKIPPED
\* if the flow sub-model is absent; otherwise, with the count of the steady
\* boundary entries of a steady flow and of the unsteady entries of an
\* unsteady flow, PASS with an actual value "<count> <steady|unsteady>
\* boundary conditions" if the count is greater than zero and FAIL if it
\* is zero.
BoundaryConditions ==
    \A c \in Calls : \A n \in 1..Len(raised[c]) :
        (Done(c) /\ NamesHandler(RuleAt(c, n), {"check_boundary_conditions_defined"})) =>
            /\ raised[c][n] = ""
            /\ Len(Seg(c, n)) = 1
            /\ IF IsNone(model[c].a.flow)
               THEN Seg(c, n)[1].status = "SKIPPED"
               ELSE LET count == Len(CountedBoundaries(model[c]))
                        kind == IF model[c].a.flow.a.is_steady.b
                                THEN "steady" ELSE "unsteady"
                    IN  IF count > 0
                        THEN /\ Seg(c, n)[1].status = "PASS"
                             /\ Seg(c, n)[1].actual_value
                                    = ToString(count) \o " " \o kind
                                          \o " boundary conditions"
                        ELSE Seg(c, n)[1].status = "FAIL"

\* C24 witness: over an unsteady flow with three unsteady boundaries and no
\* steady one the boundary rule returned its one PASS with the count
BoundaryWitness ==
    \E c \in Calls :
        /\ Done(c)
        /\ RuleAt(c, 1) = BoundaryRule
        /\ model[c] = UnsteadyModel
        /\ Statuses(Seg(c, 1)) = <<"PASS">>
        /\ Seg(c, 1)[1].actual_value = "3 unsteady boundary conditions"

\* rule n of call c names the manual-review handler
ReviewRuleAt(c, n) ==
    Done(c) /\ NamesHandler(RuleAt(c, n), {"flag_for_manual_review"})

\* the review note the rule configures
ConfiguredNote(rule) == rule.d.parameters.d.review_note

\* C25 as stated, in its last part: the message of the manual-review
\* Result is equal to the rule's configured review note.
ReviewMessageIsNote ==
    \A c \in Calls : \A n \in 1..Len(raised[c]) :
        (ReviewRuleAt(c, n) /\ HasKey(RuleAt(c, n).d.parameters, "review_note")) =>
            /\ Len(Seg(c, n)) = 1
            /\ Seg(c, n)[1].message = Concat(ConfiguredNote(RuleAt(c, n)).c)

\* C25, amended: for every Model Data (one with all sub-models absent
\* included) and every rule that names the manual-review handler, the
\* handler returns exactly one result with status PASS and severity "info",
\* whatever severity the rule declares; its message is the rule's
\* configured review note with surrounding whitespace removed, and
\* "Manual review required." when the rule configures no note.
ManualReview ==
    \A c \in Calls : \A n \in 1..Len(raised[c]) :
        ReviewRuleAt(c, n) =>
            /\ raised[c][n] = ""
            /\ Len(Seg(c, n)) = 1
            /\ Seg(c, n)[1].status = "PASS"
            /\ Seg(c, n)[1].severity = S("info")
            /\ Seg(c, n)[1].message
                   = IF HasKey(RuleAt(c, n).d.parameters, "review_note")
                     THEN Concat(Strip(ConfiguredNote(RuleAt(c, n)).c))
                     ELSE "Manual review required."

\* C25 witness: a review rule that declares severity "error" returned, over
\* the model without sub-models, its one PASS Result of severity "info"
ManualReviewWitness ==
    \E c \in Calls :
        /\ ReviewRuleAt(c, 1)
        /\ RuleAt(c, 1) = StrictReviewRule
        /\ model[c] = EmptyModel
        /\ Statuses(Seg(c, 1)) = <<"PASS">>
        /\ Seg(c, 1)[1].severity = S("info")
        /\ Seg(c, 1)[1].message = "Review datum."

StatusEnum == {"PASS", "FAIL", "WARNING", "SKIPPED"}

\* Result r carries the identifier and the name of the rule, and a status
\* of the enumeration
CarriesRule(r, rule) ==
    /\ r.rule_id = DictGet(rule, "id", S("?"))
    /\ r.rule_name = DictGet(rule, "name", S("?"))
    /\ r.status \in StatusEnum

\* C26 as stated: every Result returned by evaluate carries the identifier,
\* the name and the severity of the rule that produced it, and a status
\* among PASS, FAIL, WARNING, SKIPPED.
ProvenanceWithSeverity ==
    \A c \in Calls : \A n \in 1..Len(mark[c]) :
        IsMapping(RuleAt(c, n)) =>
            \A k \in 1..Len(Seg(c, n)) :
                /\ CarriesRule(Seg(c, n)[k], RuleAt(c, n))
                /\ Seg(c, n)[k].severity = DictGet(RuleAt(c, n), "severity", S("error"))

\* C26, amended: every Result returned by evaluate carries the identifier
\* and the name of the rule that produced it and a status among PASS, FAIL,
\* WARNING, SKIPPED, for generic checks, built-in handlers and the engine's
\* error path alike; it carries the rule's severity too, except the Result
\* of the manual-review handler, whose severity is "info" whatever the rule
\* declares.
Provenance ==
    \A c \in Calls : \A n \in 1..Len(mark[c]) :
        IsMapping(RuleAt(c, n)) =>
            \A k \in 1..Len(Seg(c, n)) :
                /\ CarriesRule(Seg(c, n)[k], RuleAt(c, n))
                /\ Seg(c, n)[k].severity
                       = IF /\ NamesHandler(RuleAt(c, n), {"flag_for_manual_review"})
                            /\ Seg(c, n)[k].status = "PASS"
                         THEN S("info")
                         ELSE DictGet(RuleAt(c, n), "severity", S("error"))

\* C26 witness: the channel rule raised in its check after a first Result,
\* and the one Result the except clause made for it carries its identifier,
\* name and severity
ProvenanceWitness ==
    \E c \in Calls :
        /\ Done(c)
        /\ raised[c] = <<"check">>
        /\ HasCheckType(RuleAt(c, 1), "range")
        /\ Len(Seg(c, 1)) = 1
        /\ Seg(c, 1)[1].message = "Internal error evaluating rule."
        /\ Seg(c, 1)[1].rule_id = ChannelRule.d.id
        /\ Seg(c, 1)[1].rule_name = ChannelRule.d.name
        /\ Seg(c, 1)[1].severity = ChannelRule.d.severity

\* C27: evaluate is read-only: no step of an evaluate call changes the
\* Model Data passed in or the rule list of a constructed engine (its
\* length, its order, any field of any rule), whether the rule at hand
\* passes, fails, is skipped or raises.
ReadOnly ==
    [][/\ model' = model
       /\ \A e \in Engines : rules[e] # <<>> => rules'[e] = rules[e]]_vars

\* C27 witness: two evaluate calls have ended, the second on an engine one
\* of whose rules raised, and engine 1 still holds the rule list it was
\* constructed with
ReadOnlyWitness ==
    /\ Done(1) /\ Done(2) /\ eng[2] = 2
    /\ \E n \in 1..Len(raised[2]) : raised[2][n] # ""
    /\ rules[1] = config.fema_path.data.d.rules.e
    /\ Len(rules[2]) = Len(rules[1])
    /\ {"PASS", "FAIL", "SKIPPED"} \subseteq
           {results[1][k].status : k \in 1..Len(results[1])}

\* what _evaluate_rule returns for the pairs of a generic rule, checked in
\* turn: their Results, or the exception of the first check that raises
RECURSIVE CheckAll(_, _)
CheckAll(rule, pairs) ==
    IF pairs = <<>> THEN Return(<<>>)
    ELSE LET r == CheckValue(rule, Head(pairs).val, Head(pairs).loc)
             rest == CheckAll(rule, Tail(pairs))
         IN  IF r.ok /\ rest.ok THEN Return(<<r.v>> \o rest.v) ELSE Raise

\* what _evaluate_rule(rule, model) returns on its own (engine.py, 201-232)
evaluate_rule(rule, m) ==
    IF rule.t # "dict" THEN Raise
    ELSE IF PyEq(DictGet(rule, "check_type", EmptyStr), S("custom"))
    THEN run_custom(rule, m)
    ELSE LET rv == resolve_values(m, DictGet(rule, "applies_to", EmptyStr))
             sk == skipped(rule, "Data not available", "")
         IN  IF ~rv.ok THEN Raise
             ELSE IF rv.vals = <<>>
             THEN (IF sk.ok THEN Return(<<sk.v>>) ELSE Raise)
             ELSE CheckAll(rule, rv.vals)

\* the list evaluate returns for a list of mappings when it runs alone
\* (engine.py, 177-197)
RECURSIVE EvaluateAlone(_, _)
EvaluateAlone(list, m) ==
    IF list = <<>> THEN <<>>
    ELSE LET r == evaluate_rule(Head(list), m)
         IN  (IF r.ok THEN r.v ELSE <<ErrorResult(Head(list))>>)
             \o EvaluateAlone(Tail(list), m)

IsPrefix(a, b) == Len(a) <= Len(b) /\ a = SubSeq(b, 1, Len(a))

\* C28: two evaluate calls, each on its own engine with its own Model Data
\* or both on one engine, interleaved in any order: what a call has
\* collected is at every moment a prefix of the list it returns when run
\* alone, and when it returns it returns exactly that list; the rule list
\* the calls share is never written.
NoInterference ==
    /\ rules[1] = config.fema_path.data.d.rules.e
    /\ \A c \in Calls :
        pc[c] # "idle" =>
            /\ IsPrefix(results[c], EvaluateAlone(rules[eng[c]], model[c]))
            /\ Done(c) => results[c] = EvaluateAlone(rules[eng[c]], model[c])

\* C28 witness: both calls are under way on the one rule list of engine 1,
\* each with its own Model Data and each with Results collected, the first
\* in its loop over the resolved values, the second handling an exception
ConcurrentWitness ==
    /\ eng[1] = 1 /\ eng[2] = 1
    /\ model[1] # model[2]
    /\ pc[1] = "values" /\ pos[1] > 1
    /\ pc[2] = "except"
    /\ results[1] # <<>> /\ results[2] # <<>>

\* the lines of the report under heading h: those after it, up to the next
\* heading of its level or above, or the disclaimer; <<>> without heading
Under(rep, h) ==
    LET at == {i \in 1..Len(rep) : rep[i] = h}
    IN  IF at = {} THEN <<>>
        ELSE LET i == CHOOSE i \in at : \A m \in at : i <= m
                 ends == {j \in (i + 1)..Len(rep) :
                            \/ rep[j].kind = "disclaimer"
                            \/ rep[j].kind = "heading" /\ rep[j].level <= h.level}
                 j == IF ends = {} THEN Len(rep) + 1
                      ELSE CHOOSE j \in ends : \A m \in ends : j <= m
             IN  SubSeq(rep, i + 1, j - 1)

HasSection(rep, title) == \E i \in 1..Len(rep) : rep[i] = Heading(2, title)

\* the Results of a list that have one of the statuses, in list order
WithStatus(list, statuses) == SelectSeq(list, LAMBDA r : r.status \in statuses)

\* what identifies a Result in a listing: its rule, where it is, what was
\* found and what was said
Shown(r) ==
    <<StrOf(r.rule_id), StrOf(r.rule_name),
      IF r.location = "" THEN "" ELSE " at " \o r.location, r.message>>

\* the section under the title lists exactly the given Results, in order,
\* each as an item of the kind
Lists(rep, title, kind, list) ==
    LET sec == Under(rep, Heading(2, title))
    IN  /\ Len(sec) = Len(list)
        /\ \A k \in 1..Len(sec) :
            /\ k <= Len(list)
            /\ sec[k].kind = kind
            /\ <<sec[k].rule_id, sec[k].rule_name, sec[k].loc,
                 IF kind = "failure" THEN sec[k].message ELSE sec[k].issue>>
                   = Shown(list[k])

\* C29: the generated report contains a Critical Failures section exactly
\* when at least one Result has status FAIL, and that section lists exactly
\* the FAIL Results in result order; it contains a Recommendations section
\* exactly when at least one Result is FAIL or WARNING, and that section
\* lists exactly those Results in result order.
ReportSections ==
    \A c \in Calls :
        report[c] # <<>> =>
            LET fails == WithStatus(results[c], {"FAIL"})
                acts == WithStatus(results[c], {"FAIL", "WARNING"})
            IN  /\ HasSection(report[c], "Critical Failures") <=> fails # <<>>
                /\ Lists(report[c], "Critical Failures", "failure", fails)
                /\ HasSection(report[c], "Recommendations") <=> acts # <<>>
                /\ Lists(report[c], "Recommendations", "recommendation", acts)
                /\ \A k \in 1..Len(acts) :
                    k <= Len(Under(report[c], Heading(2, "Recommendations"))) =>
                        Under(report[c], Heading(2, "Recommendations"))[k].tag
                            = IF acts[k].status = "FAIL" THEN "FAIL" ELSE "WARN"

\* C29 witness: a report generated from Results of all four statuses holds
\* both sections, the two failures under Critical Failures, the failures
\* and the warning under Recommendations
ReportSectionsWitness ==
    \E c \in Calls :
        /\ report[c] # <<>>
        /\ Statuses(results[c]) = <<"FAIL", "PASS", "FAIL", "SKIPPED", "WARNING">>
        /\ Len(Under(report[c], Heading(2, "Critical Failures"))) = 2
        /\ Len(Under(report[c], Heading(2, "Recommendations"))) = 3

\* the category the claim gives a Result: that of the first segment of its
\* rule id that is a known prefix, else "Other"
CategoryOf(r) ==
    LET segs == SelectSeq(r.rule_id.c, LAMBDA x : x # "-")
        known == {i \in 1..Len(segs) : segs[i] \in DOMAIN PREFIX_TO_CATEGORY}
    IN  IF known = {} THEN "Other"
        ELSE PREFIX_TO_CATEGORY[segs[CHOOSE i \in known : \A m \in known : i <= m]]

\* the rows of a list of report lines, and what a row shows of a Result
RowsOf(lines) == SelectSeq(lines, LAMBDA l : l.kind = "row")
RowShown(r) ==
    <<IF r.status = "WARNING" THEN "WARN"
      ELSE IF r.status = "SKIPPED" THEN "SKIP" ELSE r.status,
      StrOf(r.rule_name),
      IF r.location = "" THEN "--" ELSE r.location,
      IF r.actual_value = "" THEN "--" ELSE r.actual_value>>

\* the count the executive summary gives under a label
Counted(rep, label) ==
    LET at == {i \in 1..Len(rep) : rep[i].kind = "count" /\ rep[i].label = label}
    IN  IF at = {} THEN -1 ELSE rep[CHOOSE i \in at : TRUE].n

\* C30: no Result is lost or duplicated by the report: the detailed results
\* hold one row per Result; the group of each category holds exactly the
\* Results of that category (the category of the first segment of the rule
\* id that is a known prefix, else "Other"), in input order; the groups
\* come in the fixed category order, a category without Result having no
\* group; and the PASS, FAIL, WARNING and SKIPPED counts of the executive
\* summary add up to the reported total, the number of Results.
ReportKeepsResults ==
    \A c \in Calls :
        report[c] # <<>> =>
            LET detail == Under(report[c], Heading(2, "Detailed Results"))
                heads == SelectSeq(detail, LAMBDA l : l.kind = "heading")
                InCategory(cat) == SelectSeq(results[c], LAMBDA r : CategoryOf(r) = cat)
            IN  /\ Len(RowsOf(detail)) = Len(results[c])
                /\ \A q \in 1..Len(CATEGORY_ORDER) :
                    LET group == Under(report[c], Heading(3, CATEGORY_ORDER[q]))
                        mine == InCategory(CATEGORY_ORDER[q])
                    IN  /\ Len(group) = Len(mine)
                        /\ \A k \in 1..Len(group) :
                            /\ k <= Len(mine)
                            /\ group[k].kind = "row"
                            /\ <<group[k].status, group[k].rule_name, group[k].loc,
                                 group[k].actual>> = RowShown(mine[k])
                /\ [k \in 1..Len(heads) |-> heads[k].text]
                       = SelectSeq(CATEGORY_ORDER, LAMBDA cat : InCategory(cat) # <<>>)
                /\ Counted(report[c], "Total") = Len(results[c])
                /\ Counted(report[c], "PASS") + Counted(report[c], "FAIL")
                       + Counted(report[c], "WARNING") + Counted(report[c], "SKIPPED")
                       = Counted(report[c], "Total")

\* C30 witness: from the Results of a rule without known prefix, a boundary
\* rule and a Manning rule, in this order, the report holds the groups
\* Manning's n, Boundary Conditions, Other and one row per Result
ReportKeepsWitness ==
    \E c \in Calls :
        /\ report[c] # <<>>
        /\ rules[eng[c]] = <<MethodRule, BoundaryRule, ChannelRule>>
        /\ model[c] = BadModel
        /\ Len(results[c]) = 5
        /\ LET detail == Under(report[c], Heading(2, "Detailed Results"))
           IN  /\ Len(RowsOf(detail)) = 5
               /\ [k \in 1..3 |-> SelectSeq(detail, LAMBDA l : l.kind = "heading")[k].text]
                      = <<"Manning's n", "Boundary Conditions", "Other">>
====
